---- MODULE Spec2Model ----
(***************************************************************************)
(* TropiX (obsidian-tropix): the note classifier and the file-label cache  *)
(* of STAPlugin.  Text is modelled as a sequence of one-character strings, *)
(* and every regular expression of the source is an operator that walks    *)
(* that sequence the way the JavaScript regex engine does (leftmost match, *)
(* greedy quantifiers, backtracking where it changes the result).          *)
(***************************************************************************)
EXTENDS Integers, Sequences, FiniteSets, TLC

\* JavaScript null / undefined / a failed match
Null == "null"

(***************************************************************************)
(* Characters and strings                                                  *)
(***************************************************************************)
LowerLetters ==
    <<"a","b","c","d","e","f","g","h","i","j","k","l","m",
      "n","o","p","q","r","s","t","u","v","w","x","y","z">>

UpperLetters ==
    <<"A","B","C","D","E","F","G","H","I","J","K","L","M",
      "N","O","P","Q","R","S","T","U","V","W","X","Y","Z">>

LowerSet == {LowerLetters[i] : i \in DOMAIN LowerLetters}

UpperSet == {UpperLetters[i] : i \in DOMAIN UpperLetters}

DigitSet == {"0","1","2","3","4","5","6","7","8","9"}

\* the class [a-zA-Z0-9_-] of the hashtag pattern
WordChars == LowerSet \cup UpperSet \cup DigitSet \cup {"_", "-"}

\* the class \s
SpaceChars == {" ", "\n", "\t", "\r"}

\* the class ['"#] stripped from YAML tags, and ['"] stripped by identifyTypeByTags
QuoteHashChars == {"'", "\"", "#"}

QuoteChars == {"'", "\""}

LowerOf == [c \in UpperSet |-> LowerLetters[CHOOSE i \in DOMAIN UpperLetters : UpperLetters[i] = c]]

LowerChar(c) == IF c \in UpperSet THEN LowerOf[c] ELSE c

\* String.prototype.toLowerCase
toLowerCase(s) == [i \in 1..Len(s) |-> LowerChar(s[i])]

\* s.replace(/[...]/g, '') for a character class
RemoveChars(s, class) == SelectSeq(s, LAMBDA c : c \notin class)

\* s.replace(/^#/, '')
StripLeadingHash(s) == IF Len(s) > 0 /\ s[1] = "#" THEN Tail(s) ELSE s

\* the literal lit occurs in s at index i
StartsWithAt(s, i, lit) ==
    /\ i >= 1
    /\ i + Len(lit) - 1 <= Len(s)
    /\ \A k \in 1..Len(lit) : s[i + k - 1] = lit[k]

\* the same, ignoring case (the /i flag)
StartsWithAtCI(s, i, lit) ==
    /\ i >= 1
    /\ i + Len(lit) - 1 <= Len(s)
    /\ \A k \in 1..Len(lit) : LowerChar(s[i + k - 1]) = LowerChar(lit[k])

\* the least and the greatest index of a set of indices, 0 for the empty set
First(S) == IF S = {} THEN 0 ELSE CHOOSE m \in S : \A k \in S : m <= k

Last(S) == IF S = {} THEN 0 ELSE CHOOSE m \in S : \A k \in S : m >= k

\* index of the first occurrence of lit in s at or after i, 0 when there is none
FindLit(s, lit, i) == First({j \in i..(Len(s) - Len(lit) + 1) : StartsWithAt(s, j, lit)})

\* last index of the longest run of characters of class that starts at i (i-1: empty run)
RunEnd(s, i, class) ==
    IF i > Len(s) THEN i - 1
    ELSE CHOOSE j \in (i - 1)..Len(s) : /\ \A k \in i..j : s[k] \in class
                                        /\ (j = Len(s) \/ s[j + 1] \notin class)

\* last index of the longest run of characters outside class that starts at i
RunEndNot(s, i, class) ==
    IF i > Len(s) THEN i - 1
    ELSE CHOOSE j \in (i - 1)..Len(s) : /\ \A k \in i..j : s[k] \notin class
                                        /\ (j = Len(s) \/ s[j + 1] \in class)

\* greedy \s* starting at i: last index of the whitespace run
WsRunEnd(s, i) == RunEnd(s, i, SpaceChars)

\* the largest p in lo..hi with s[p] = "\n", 0 when there is none: where a greedy
\* \s* followed by \n ends up after backtracking
LastNewline(s, hi, lo) == Last({p \in lo..hi : s[p] = "\n"})

\* String.prototype.trim
trim(s) ==
    LET a == WsRunEnd(s, 1) + 1
    IN SubSeq(s, a, Last({j \in a..Len(s) : s[j] \notin SpaceChars}))

\* s.split(',')
RECURSIVE SplitComma(_)
SplitComma(s) ==
    LET c == FindLit(s, <<",">>, 1)
    IN IF c = 0 THEN <<s>>
       ELSE <<SubSeq(s, 1, c - 1)>> \o SplitComma(SubSeq(s, c + 1, Len(s)))

\* s.split(/[,\s]+/) followed by .filter(tag => tag.length > 0): the maximal runs
\* of characters that are neither a comma nor whitespace
RECURSIVE SplitCommaSpace(_, _)
SplitCommaSpace(s, i) ==
    LET seps == SpaceChars \cup {","}
        a == RunEnd(s, i, seps) + 1
        b == RunEndNot(s, a, seps)
    IN IF a > Len(s) THEN << >>
       ELSE <<SubSeq(s, a, b)>> \o SplitCommaSpace(s, b + 1)

\* the tags returned as pushed, without new Set
Dedup_Omitted(seq) == seq

\* [...new Set(tags)]: first occurrences, in order
RECURSIVE Dedup(_)
Dedup(seq) ==
    IF seq = << >> THEN << >>
    ELSE LET front == Dedup(SubSeq(seq, 1, Len(seq) - 1))
             last == seq[Len(seq)]
         IN IF \E i \in DOMAIN front : front[i] = last THEN front
            ELSE Append(front, last)

\* the result of a failed String.prototype.match
NoMatch == [found |-> FALSE, group |-> << >>]

Match(g) == [found |-> TRUE, group |-> g]

(***************************************************************************)
(* extractTagsFromContent                                                  *)
(***************************************************************************)
Dashes == <<"-","-","-">>

NlDashes == <<"\n","-","-","-">>

TagsKey == <<"t","a","g","s",":">>

\* content.match(/#[a-zA-Z0-9_-]+/g).map(tag => tag.substring(1).toLowerCase())
RECURSIVE HashtagScan(_, _)
HashtagScan(s, i) ==
    LET h == First({k \in i..(Len(s) - 1) : s[k] = "#" /\ s[k + 1] \in WordChars})
        j == RunEnd(s, h + 1, WordChars)
    IN IF h = 0 THEN << >>
       ELSE <<toLowerCase(SubSeq(s, h + 1, j))>> \o HashtagScan(s, j + 1)

hashtagMatches(content) == HashtagScan(content, 1)

\* content.match(/^---\s*\n([\s\S]*?)\n---/): p is the newline that ends "---\s*",
\* tried from the last newline of the whitespace run backwards (greedy \s*); the
\* lazy group ends at the first "\n---" at or after p+1
RECURSIVE FrontmatterTry(_, _, _)
FrontmatterTry(s, p, lo) ==
    IF p < lo THEN NoMatch
    ELSE LET e == IF s[p] = "\n" THEN FindLit(s, NlDashes, p + 1) ELSE 0
         IN IF e # 0 THEN Match(SubSeq(s, p + 1, e - 1))
            ELSE FrontmatterTry(s, p - 1, lo)

frontmatterMatch(content) ==
    IF StartsWithAt(content, 1, Dashes)
    THEN FrontmatterTry(content, WsRunEnd(content, 4), 4)
    ELSE NoMatch

\* frontmatter.match(/tags:\s*\[([^\]]+)\]/): leftmost "tags:", whitespace, "[",
\* one or more characters other than "]", then "]"
RECURSIVE TagsArrayAt(_, _)
TagsArrayAt(f, from) ==
    LET i == FindLit(f, TagsKey, from)
        k == WsRunEnd(f, i + 5) + 1
        r == IF k <= Len(f) /\ f[k] = "[" THEN FindLit(f, <<"]">>, k + 1) ELSE 0
    IN IF i = 0 THEN NoMatch
       ELSE IF r >= k + 2 THEN Match(SubSeq(f, k + 1, r - 1))
       ELSE TagsArrayAt(f, i + 1)

tagsArrayMatch(frontmatter) == TagsArrayAt(frontmatter, 1)

\* tag.trim().replace(/['"#]/g, '').toLowerCase()
YamlTag(tag) == toLowerCase(RemoveChars(trim(tag), QuoteHashChars))

\* tagsArrayMatch[1].split(',').map(...)
ArrayYamlTags(group) ==
    LET parts == SplitComma(group)
    IN [i \in 1..Len(parts) |-> YamlTag(parts[i])]

\* where [^\n]+ starts after "-\s*": the greedy \s* ends at b and gives characters
\* back until a character other than "\n" follows it; 0 when none does
RECURSIVE ItemTextStart(_, _, _)
ItemTextStart(s, b, d) ==
    IF b < d THEN 0
    ELSE IF b + 1 <= Len(s) /\ s[b + 1] # "\n" THEN b + 1
    ELSE ItemTextStart(s, b - 1, d)

\* one match of \s*-\s*[^\n]+ starting at i: the index of its last character, 0
\* when the pattern does not match at i
ItemEnd(s, i) ==
    LET d == WsRunEnd(s, i) + 1
    IN IF d > Len(s) \/ s[d] # "-" THEN 0
       ELSE LET st == ItemTextStart(s, WsRunEnd(s, d + 1), d)
            IN IF st = 0 THEN 0 ELSE RunEndNot(s, st, {"\n"})

\* ((?:\s*-\s*[^\n]+\n?)*) starting at i: the index of the last character of the group
RECURSIVE ItemsEnd(_, _)
ItemsEnd(s, i) ==
    LET e == ItemEnd(s, i)
    IN IF e = 0 THEN i - 1
       ELSE IF e + 1 <= Len(s) /\ s[e + 1] = "\n" THEN ItemsEnd(s, e + 2)
       ELSE ItemsEnd(s, e + 1)

\* frontmatter.match(/tags:\s*\n((?:\s*-\s*[^\n]+\n?)*)/): leftmost "tags:" whose
\* following whitespace run holds a newline; the group starts after the last one
RECURSIVE TagsListAt(_, _)
TagsListAt(f, from) ==
    LET i == FindLit(f, TagsKey, from)
        p == LastNewline(f, WsRunEnd(f, i + 5), i + 5)
    IN IF i = 0 THEN NoMatch
       ELSE IF p # 0 THEN Match(SubSeq(f, p + 1, ItemsEnd(f, p + 1)))
       ELSE TagsListAt(f, i + 1)

tagsListMatch(frontmatter) == TagsListAt(frontmatter, 1)

\* tagsListMatch[1].match(/\s*-\s*([^\n]+)/g): the matched substrings
RECURSIVE ListItemsFrom(_, _)
ListItemsFrom(g, from) ==
    LET i == First({k \in from..Len(g) : ItemEnd(g, k) # 0})
        e == ItemEnd(g, i)
    IN IF i = 0 THEN << >>
       ELSE <<SubSeq(g, i, e)>> \o ListItemsFrom(g, e + 1)

listItems(group) == ListItemsFrom(group, 1)

\* item.replace(/\s*-\s*/, '').trim().replace(/['"#]/g, '').toLowerCase()
ListYamlTag(item) ==
    LET d == FindLit(item, <<"-">>, 1)
        a == IF d = 0 THEN 0 ELSE
             CHOOSE k \in 1..d : /\ \A m \in k..(d - 1) : item[m] \in SpaceChars
                                 /\ (k = 1 \/ item[k - 1] \notin SpaceChars)
        rest == IF d = 0 THEN item
                ELSE SubSeq(item, 1, a - 1) \o SubSeq(item, WsRunEnd(item, d + 1) + 1, Len(item))
    IN YamlTag(rest)

ListYamlTags(group) ==
    LET items == listItems(group)
    IN [i \in 1..Len(items) |-> ListYamlTag(items[i])]

\* the YAML frontmatter tags (array format, else list format)
FrontmatterTags(content) ==
    LET fm == frontmatterMatch(content)
    IN IF ~fm.found THEN << >>
       ELSE LET arr == tagsArrayMatch(fm.group)
            IN IF arr.found THEN ArrayYamlTags(arr.group)
               ELSE LET lst == tagsListMatch(fm.group)
                    IN IF lst.found THEN ListYamlTags(lst.group) ELSE << >>

\* content.match(/##\s*Tags\s*\n([^\n#]*)/i): leftmost "##", whitespace, "tags" in
\* any case, a whitespace run holding a newline; the group is the run of
\* characters other than "\n" and "#" after the last newline of that run
RECURSIVE TagsSectionAt(_, _)
TagsSectionAt(s, from) ==
    LET i == FindLit(s, <<"#","#">>, from)
        t == WsRunEnd(s, i + 2) + 1
        p == IF StartsWithAtCI(s, t, <<"T","a","g","s">>)
             THEN LastNewline(s, WsRunEnd(s, t + 4), t + 4)
             ELSE 0
    IN IF i = 0 THEN NoMatch
       ELSE IF p # 0 THEN Match(SubSeq(s, p + 1, RunEndNot(s, p + 1, {"\n", "#"})))
       ELSE TagsSectionAt(s, i + 1)

tagsSectionMatch(content) == TagsSectionAt(content, 1)

\* .split(/[,\s]+/).map(tag => tag.replace(/^#/, '').trim().toLowerCase())
\*  .filter(tag => tag.length > 0)
sectionTags(group) ==
    LET parts == SplitCommaSpace(group, 1)
        mapped == [i \in 1..Len(parts) |-> toLowerCase(trim(StripLeadingHash(parts[i])))]
    IN SelectSeq(mapped, LAMBDA tag : Len(tag) > 0)

\* all tags pushed, before duplicates are removed
AllPushedTags(content) ==
    LET sec == tagsSectionMatch(content)
    IN hashtagMatches(content) \o FrontmatterTags(content)
       \o (IF sec.found THEN sectionTags(sec.group) ELSE << >>)

extractTagsFromContent(content) == Dedup(AllPushedTags(content))

(***************************************************************************)
(* Templates and settings                                                  *)
(***************************************************************************)
DEFAULT_SOURCE_TEMPLATE ==
    <<"-","-","-","\n","D","O","I",":","\n","T","i","t","l","e",":"," ","{","{","t","i","t","l",
      "e","}","}","\n","S","u","m","m","a","r","y",":","\n","Y","e","a","r",":","\n","J","o",
      "u","r","n","a","l",":","\n","A","d","d","e","d",":"," ","{","{","d","a","t","e","}","}",
      "\n","R","a","t","i","n","g",":"," ","0","/","5","\n","t","a","g","s",":","\n"," "," ",
      "-"," ","\"","#","r","e","s","e","a","r","c","h","\"","\n"," "," ","-"," ","\"","#","s",
      "o","u","r","c","e","\"","\n","-","-","-","\n","\n","#","#","#"," ","[","L","i","n","k",
      " ","T","o"," ","P","D","F","]","(",")","\n","\n",">"," ","[","!","a","u","t","h","o","r",
      "]","\n","\n",">"," ","[","!","s","u","m","m","a","r","y","]","\n","\n",">"," ","[","!",
      "q","u","o","t","e","]"," ","Q","u","o","t","e","s","\n","\n",">"," ","[","!","n","o","t",
      "e","]"," ","B","i","b","T","e","X"," ","C","i","t","a","t","i","o","n","\n">>

DEFAULT_TOPIC_TEMPLATE ==
    <<"-","-","-","\n","t","a","g","s",":","\n"," "," ","-"," ","\"","#","r","e","s","e","a",
      "r","c","h","\"","\n"," "," ","-"," ","\"","#","t","o","p","i","c","\"","\n","-","-","-",
      "\n","\n",">"," ","[","!","e","x","a","m","p","l","e","]"," ","S","o","u","r","c","e","s",
      "\n","\n",">"," ","!","[","t","i","p","]"," ","R","e","l","a","t","e","d"," ","A","r","g",
      "u","m","e","n","t","s","\n","\n","#","#"," ","O","v","e","r","v","i","e","w","\n","\n",
      "#","#"," ","Q","u","e","s","t","i","o","n","s","\n","\n","-","\n">>

DEFAULT_ARGUMENT_TEMPLATE ==
    <<"-","-","-","\n","t","a","g","s",":","\n"," "," ","-"," ","\"","#","r","e","s","e","a",
      "r","c","h","\"","\n"," "," ","-"," ","\"","#","a","r","g","u","m","e","n","t","\"","\n",
      "-","-","-","\n","\n","#","#"," ","B","a","s","i","c","s","\n","\n",">"," ","[","!","t",
      "i","p","]"," ","C","l","a","i","m","\n","\n","#","#"," ","E","v","i","d","e","n","c","e",
      "\n","\n",">"," ","[","!","i","n","f","o","]"," ","S","o","u","r","c","e","s","\n","\n",
      "#","#"," ","R","e","a","s","o","n","i","n","g"," ","a","n","d"," ","D","i","s","p","u",
      "t","e","\n","\n",">"," ","[","!","w","a","r","n","i","n","g","]"," ","C","o","u","n","t",
      "e","r","-","A","r","g","u","m","e","n","t","s","\n">>

STANoteTypes == {"source", "topic", "argument"}

\* sourceTags: ['source', 'research', 'reference']
DefaultSourceTags ==
    <<<<"s","o","u","r","c","e">>, <<"r","e","s","e","a","r","c","h">>, <<"r","e","f","e","r","e","n","c","e">>>>

\* topicTags: ['topic', 'theme', 'subject']
DefaultTopicTags ==
    <<<<"t","o","p","i","c">>, <<"t","h","e","m","e">>, <<"s","u","b","j","e","c","t">>>>

\* argumentTags: ['argument', 'claim', 'position']
DefaultArgumentTags ==
    <<<<"a","r","g","u","m","e","n","t">>, <<"c","l","a","i","m">>, <<"p","o","s","i","t","i","o","n">>>>

DEFAULT_SETTINGS ==
    [ sourceTemplate |-> DEFAULT_SOURCE_TEMPLATE,
      topicTemplate |-> DEFAULT_TOPIC_TEMPLATE,
      argumentTemplate |-> DEFAULT_ARGUMENT_TEMPLATE,
      defaultSourcesFolder |-> "Sources",
      defaultTopicsFolder |-> "Topics",
      defaultArgumentsFolder |-> "Arguments",
      useDefaultFolders |-> TRUE,
      useTagBasedIdentification |-> TRUE,
      sourceTags |-> DefaultSourceTags,
      topicTags |-> DefaultTopicTags,
      argumentTags |-> DefaultArgumentTags,
      showFileExplorerLabels |-> TRUE ]

(***************************************************************************)
(* identifyTypeByTags, identifyNoteType, validateTagConfiguration          *)
(***************************************************************************)
\* tag.replace(/^#/, '').replace(/['"]/g, '').toLowerCase(), applied alike to the
\* note's tags and to the configured tags
normalizeConfigTag(tag) == toLowerCase(RemoveChars(StripLeadingHash(tag), QuoteChars))

normalizedNoteTags(noteTags) == [i \in 1..Len(noteTags) |-> normalizeConfigTag(noteTags[i])]

\* Array.prototype.includes
includes(array, x) == \E i \in DOMAIN array : array[i] = x

\* someTagIncluded with Array.prototype.every in place of some
someTagIncluded_Every(configTags, normalized) ==
    \A i \in DOMAIN configTags : includes(normalized, normalizeConfigTag(configTags[i]))

\* configTags.some(tag => normalizedNoteTags.includes(normalizeConfigTag(tag)))
someTagIncluded(configTags, normalized) ==
    \E i \in DOMAIN configTags : includes(normalized, normalizeConfigTag(configTags[i]))

\* identifyTypeByTags with the source tags checked before the argument tags
identifyTypeByTags_SourceFirst(noteTags, st) ==
    LET normalized == [i \in 1..Len(noteTags) |->
                          toLowerCase(RemoveChars(StripLeadingHash(noteTags[i]), QuoteChars))]
        hit(configTags) ==
            \E i \in DOMAIN configTags : \E j \in DOMAIN normalized :
                normalized[j] = toLowerCase(RemoveChars(StripLeadingHash(configTags[i]), QuoteChars))
    IN IF hit(st.sourceTags) THEN "source"
       ELSE IF hit(st.argumentTags) THEN "argument"
       ELSE IF hit(st.topicTags) THEN "topic"
       ELSE Null

identifyTypeByTags(noteTags, st) ==
    LET normalized == normalizedNoteTags(noteTags)
    IN IF someTagIncluded(st.argumentTags, normalized) THEN "argument"
       ELSE IF someTagIncluded(st.sourceTags, normalized) THEN "source"
       ELSE IF someTagIncluded(st.topicTags, normalized) THEN "topic"
       ELSE Null

TypeMarker == <<"*","*","T","y","p","e",":","*","*">>

\* the alternatives of (Source|Topic|Argument), as written in the pattern
TypeWords == <<"Source", "Topic", "Argument">>

TypeWordChars ==
    [ Source |-> <<"S","o","u","r","c","e">>,
      Topic |-> <<"T","o","p","i","c">>,
      Argument |-> <<"A","r","g","u","m","e","n","t">> ]

\* content.match(/\*\*Type:\*\*\s*(Source|Topic|Argument)/): the captured word of
\* the leftmost match
RECURSIVE TypeMatchAt(_, _)
TypeMatchAt(s, from) ==
    LET i == FindLit(s, TypeMarker, from)
        k == WsRunEnd(s, i + Len(TypeMarker)) + 1
        hit == {w \in DOMAIN TypeWords : StartsWithAt(s, k, TypeWordChars[TypeWords[w]])}
    IN IF i = 0 THEN NoMatch
       ELSE IF hit # {} THEN Match(TypeWords[First(hit)])
       ELSE TypeMatchAt(s, i + 1)

\* typeMatch with the /i flag added to the pattern
RECURSIVE TypeMatchAt_IgnoreCase(_, _)
TypeMatchAt_IgnoreCase(s, from) ==
    LET i == First({j \in from..Len(s) : StartsWithAtCI(s, j, TypeMarker)})
        k == WsRunEnd(s, i + Len(TypeMarker)) + 1
        hit == {w \in DOMAIN TypeWords : StartsWithAtCI(s, k, TypeWordChars[TypeWords[w]])}
    IN IF i = 0 THEN NoMatch
       ELSE IF hit # {} THEN Match(TypeWords[First(hit)])
       ELSE TypeMatchAt_IgnoreCase(s, i + 1)

typeMatch_IgnoreCase(content) == TypeMatchAt_IgnoreCase(content, 1)

typeMatch(content) == TypeMatchAt(content, 1)

\* the capture returned as matched, without toLowerCase()
captureToLowerCase_Omitted(word) == word

\* typeMatch[1].toLowerCase() as STANoteType
captureToLowerCase(word) ==
    CASE word = "Source" -> "source"
      [] word = "Topic" -> "topic"
      [] word = "Argument" -> "argument"
      [] OTHER -> word

\* identifyNoteType trying the tags whether or not tag-based identification is on
identifyNoteType_AlwaysTags(content, st) ==
    LET typeByTags == identifyTypeByTags(extractTagsFromContent(content), st)
        tm == typeMatch(content)
    IN IF typeByTags # Null THEN typeByTags
       ELSE IF tm.found THEN captureToLowerCase(tm.group)
       ELSE Null

identifyNoteType(content, st) ==
    LET typeByTags == IF st.useTagBasedIdentification
                      THEN identifyTypeByTags(extractTagsFromContent(content), st)
                      ELSE Null
        tm == typeMatch(content)
    IN IF typeByTags # Null THEN typeByTags
       ELSE IF tm.found THEN captureToLowerCase(tm.group)
       ELSE Null

WarnSourceEmpty == "Source tags list is empty"

WarnTopicEmpty == "Topic tags list is empty"

WarnArgumentEmpty == "Argument tags list is empty"

WarnOverlap == "Some tags are used for multiple note types - this may cause ambiguous identification"

validateTagConfiguration(st) ==
    LET e1 == IF Len(st.sourceTags) = 0 THEN <<WarnSourceEmpty>> ELSE << >>
        e2 == IF Len(st.topicTags) = 0 THEN <<WarnTopicEmpty>> ELSE << >>
        e3 == IF Len(st.argumentTags) = 0 THEN <<WarnArgumentEmpty>> ELSE << >>
        allTags == st.sourceTags \o st.topicTags \o st.argumentTags
        uniqueTags == {toLowerCase(allTags[i]) : i \in DOMAIN allTags}
        e4 == IF Len(allTags) # Cardinality(uniqueTags) THEN <<WarnOverlap>> ELSE << >>
        warnings == e1 \o e2 \o e3 \o e4
    IN [isValid |-> Len(warnings) = 0, warnings |-> warnings]

\* the settings tab's onChange of a tag text area:
\* value.split(',').map(tag => tag.trim()).filter(tag => tag.length > 0)
parseTagList(value) ==
    LET parts == SplitComma(value)
        trimmed == [i \in 1..Len(parts) |-> trim(parts[i])]
    IN SelectSeq(trimmed, LAMBDA tag : Len(tag) > 0)

(***************************************************************************)
(* createNoteFromTemplate: the content of the new note                     *)
(***************************************************************************)
\* s with s[a..b] replaced by rep
Splice(s, a, b, rep) == SubSeq(s, 1, a - 1) \o rep \o SubSeq(s, b + 1, Len(s))

\* s.replace(/lit/g, rep) for a literal pattern
RECURSIVE ReplaceAll(_, _, _)
ReplaceAll(s, lit, rep) ==
    LET i == FindLit(s, lit, 1)
    IN IF i = 0 THEN s
       ELSE SubSeq(s, 1, i - 1) \o rep
            \o ReplaceAll(SubSeq(s, i + Len(lit), Len(s)), lit, rep)

\* s.replace(lit, rep) for a literal pattern: the first occurrence only
ReplaceFirst(s, lit, rep) ==
    LET i == FindLit(s, lit, 1)
    IN IF i = 0 THEN s ELSE Splice(s, i, i + Len(lit) - 1, rep)

\* the characters before which $ matches under the m flag
LineTerminators == {"\n", "\r"}

\* where key\s*$ (flag m) ends when key ends at index e: the greedy \s* gives
\* characters back until the end of the text or a line terminator follows
RECURSIVE EolAfter(_, _, _)
EolAfter(s, b, e) ==
    IF b < e THEN 0
    ELSE IF b = Len(s) \/ s[b + 1] \in LineTerminators THEN b
    ELSE EolAfter(s, b - 1, e)

\* s.replace(/key\s*$/m, rep): the leftmost key that \s* can take to a line end
RECURSIVE ReplaceKeyAtEol(_, _, _, _)
ReplaceKeyAtEol(s, key, rep, from) ==
    LET i == FindLit(s, key, from)
        e == i + Len(key) - 1
        b == IF i = 0 THEN 0 ELSE EolAfter(s, WsRunEnd(s, e + 1), e)
    IN IF i = 0 THEN s
       ELSE IF b # 0 THEN Splice(s, i, b, rep)
       ELSE ReplaceKeyAtEol(s, key, rep, i + 1)

\* s.replace(/key\s*lit/, rep): the leftmost key followed by whitespace and lit
RECURSIVE ReplaceKeyThenLit(_, _, _, _, _)
ReplaceKeyThenLit(s, key, lit, rep, from) ==
    LET i == FindLit(s, key, from)
        k == WsRunEnd(s, i + Len(key)) + 1
    IN IF i = 0 THEN s
       ELSE IF StartsWithAt(s, k, lit) THEN Splice(s, i, k + Len(lit) - 1, rep)
       ELSE ReplaceKeyThenLit(s, key, lit, rep, i + 1)

\* where (key)\s*(\n\n) ends: the last two newlines of the whitespace run after key
RECURSIVE BlankLineAfter(_, _, _)
BlankLineAfter(s, b, e) ==
    IF b < e THEN 0
    ELSE IF b + 2 <= Len(s) /\ s[b + 1] = "\n" /\ s[b + 2] = "\n" THEN b + 2
    ELSE BlankLineAfter(s, b - 1, e)

\* s.replace(/(key)\s*(\n\n)/m, '$1\n>' + value + '$2')
RECURSIVE ReplaceCallout(_, _, _, _)
ReplaceCallout(s, key, value, from) ==
    LET i == FindLit(s, key, from)
        e == i + Len(key) - 1
        b == IF i = 0 THEN 0 ELSE BlankLineAfter(s, WsRunEnd(s, e + 1), e)
    IN IF i = 0 THEN s
       ELSE IF b # 0 THEN Splice(s, i, b, key \o <<"\n", ">">> \o value \o <<"\n", "\n">>)
       ELSE ReplaceCallout(s, key, value, i + 1)

\* the grave accent, a character that a string literal here cannot hold
Backtick == "grave-accent"

TitleVariable == <<"{","{","t","i","t","l","e","}","}">>

DateVariable == <<"{","{","d","a","t","e","}","}">>

KeyDOI == <<"D","O","I",":">>

KeySummary == <<"S","u","m","m","a","r","y",":">>

KeyYear == <<"Y","e","a","r",":">>

KeyJournal == <<"J","o","u","r","n","a","l",":">>

KeyRating == <<"R","a","t","i","n","g",":">>

RatingZero == <<"0","/","5">>

CalloutAuthor == <<">"," ","[","!","a","u","t","h","o","r","]">>

CalloutSummary == <<">"," ","[","!","s","u","m","m","a","r","y","]">>

LinkToPdf == <<"#","#","#"," ","[","L","i","n","k"," ","T","o"," ","P","D","F","]","(",")">>

CalloutBibtex == <<">"," ","[","!","n","o","t","e","]"," ","B","i","b","T","e","X"," ","C","i","t","a","t","i","o","n">>

BibtexOpen == <<"\n",">",Backtick,Backtick,Backtick,"b","i","b","t","e","x","\n",">">>

BibtexClose == <<"\n",">",Backtick,Backtick,Backtick>>

BibtexPlaceholder == <<"<","!","-","-"," ","B","i","b","T","e","X"," ","c","i","t","a","t","i","o","n"," ","w","i","l","l"," ","b","e"," ","a","d","d","e","d"," ","w","h","e","n"," ","a","v","a","i","l","a","b","l","e"," ","-","-",">">>

\* metadata.rating || 0, as interpolated, for a star rating 0..5
RatingDigits == <<"0", "1", "2", "3", "4", "5">>

\* the replacement of the BibTeX callout: $1 followed by the fenced citation
bibtexContent(bibtex) ==
    CalloutBibtex \o BibtexOpen
    \o (IF bibtex # << >> THEN ReplaceAll(bibtex, <<"\n">>, <<"\n", ">">>)
        ELSE BibtexPlaceholder)
    \o BibtexClose

\* the source-specific replacements, in the order of the chain
applySourceMetadata(content, metadata) ==
    LET c1 == ReplaceKeyAtEol(content, KeyDOI, KeyDOI \o <<" ">> \o metadata.doi, 1)
        c2 == ReplaceKeyAtEol(c1, KeySummary, KeySummary \o <<" ">> \o metadata.summary, 1)
        c3 == ReplaceKeyAtEol(c2, KeyYear, KeyYear \o <<" ">> \o metadata.year, 1)
        c4 == ReplaceKeyAtEol(c3, KeyJournal, KeyJournal \o <<" ">> \o metadata.journal, 1)
        c5 == ReplaceKeyThenLit(c4, KeyRating, RatingZero,
                  KeyRating \o <<" ", RatingDigits[metadata.rating + 1], "/", "5">>, 1)
        c6 == ReplaceCallout(c5, CalloutAuthor, metadata.author, 1)
        c7 == ReplaceCallout(c6, CalloutSummary, metadata.summary, 1)
        c8 == ReplaceFirst(c7, LinkToPdf,
                  SubSeq(LinkToPdf, 1, Len(LinkToPdf) - 1) \o metadata.pdfLink \o <<")">>)
    IN ReplaceKeyAtEol(c8, CalloutBibtex, bibtexContent(metadata.bibtex), 1)

\* the template of a note type
templateOf(type, st) ==
    CASE type = "source" -> st.sourceTemplate
      [] type = "topic" -> st.topicTemplate
      [] type = "argument" -> st.argumentTemplate

\* the text createNoteFromTemplate writes: the template with {{title}} and
\* {{date}} replaced and, for a source note with metadata, the metadata applied
newNoteContent(title, date, type, metadata, st) ==
    LET content == ReplaceAll(ReplaceAll(templateOf(type, st), TitleVariable, title),
                              DateVariable, date)
    IN IF type = "source" /\ metadata.given THEN applySourceMetadata(content, metadata)
       ELSE content

(***************************************************************************)
(* State                                                                   *)
(***************************************************************************)
VARIABLES
    settings,    \* STAPlugin.settings
    vault,       \* the markdown files of the vault: path -> content
    fileLabels,  \* STAPlugin.fileLabels: path -> STANoteType
    call,        \* what the last handler or function call reported
    arg,         \* the argument of a function applied on its own
    folders,     \* the folders of the vault
    timers,      \* the pending setTimeout callbacks
    inflight,    \* the async calls suspended at an await
    dom,         \* the file explorer: the rendered file items and their labels
    observer     \* the MutationObservers the plugin has created

vars == <<settings, vault, fileLabels, call, arg, folders, timers, inflight, dom, observer>>

Idle == [op |-> "idle"]

NoArg == [kind |-> "none"]

\* Map.prototype.set / Map.prototype.delete on fileLabels
MapSet(map, key, value) == [k \in DOMAIN map \cup {key} |-> IF k = key THEN value ELSE map[k]]

MapDelete(map, key) == [k \in DOMAIN map \ {key} |-> map[k]]

EmptyMap == [k \in {} |-> Null]

\* fileExplorerMutationObserver before any is created: active counts the
\* observers that are connected, refActive tells whether the one the field
\* refers to is
\* handlers: how many times initializeFileLabeling has registered the handlers
\* of the vault's events, once in onload as the labels are shown by default;
\* loaded: onunload has not run
NoObserver == [active |-> 0, refActive |-> FALSE, handlers |-> 1, loaded |-> TRUE]

(***************************************************************************)
(* Settings tab                                                            *)
(***************************************************************************)
SetSourceTags(value) ==
    /\ settings' = [settings EXCEPT !.sourceTags = parseTagList(value)]
    /\ call' = Idle
    /\ UNCHANGED <<vault, fileLabels, arg, folders, timers, inflight, dom, observer>>

SetTopicTags(value) ==
    /\ settings' = [settings EXCEPT !.topicTags = parseTagList(value)]
    /\ call' = Idle
    /\ UNCHANGED <<vault, fileLabels, arg, folders, timers, inflight, dom, observer>>

SetArgumentTags(value) ==
    /\ settings' = [settings EXCEPT !.argumentTags = parseTagList(value)]
    /\ call' = Idle
    /\ UNCHANGED <<vault, fileLabels, arg, folders, timers, inflight, dom, observer>>

SetUseTagBasedIdentification(value) ==
    /\ settings' = [settings EXCEPT !.useTagBasedIdentification = value]
    /\ call' = Idle
    /\ UNCHANGED <<vault, fileLabels, arg, folders, timers, inflight, dom, observer>>

SetUseDefaultFolders(value) ==
    /\ settings' = [settings EXCEPT !.useDefaultFolders = value]
    /\ call' = Idle
    /\ UNCHANGED <<vault, fileLabels, arg, folders, timers, inflight, dom, observer>>

(***************************************************************************)
(* identifyTypeByTags and validateTagConfiguration applied on their own    *)
(***************************************************************************)
\* what a user types into a tag text area
TagAreaValues ==
    { << >>,
      <<"s","o","u","r","c","e",","," ","C","l","a","i","m">>,
      <<"t","o","p","i","c",",","t","o","p","i","c">>,
      <<"#","d","r","a","f","t",","," ","'","t","h","e","m","e","'">> }

\* the tags a note may carry
NoteTagUniverse ==
    { <<"s","o","u","r","c","e">>, <<"c","l","a","i","m">>, <<"t","o","p","i","c">>,
      <<"d","r","a","f","t">>, <<"'","t","h","e","m","e","'">> }

MaxNoteTags == 2

RECURSIVE SeqsUpTo(_, _)
SeqsUpTo(S, n) ==
    IF n = 0 THEN {<< >>}
    ELSE LET shorter == SeqsUpTo(S, n - 1)
         IN shorter \cup {Append(q, x) : q \in shorter, x \in S}

NoteTagSeqs == SeqsUpTo(NoteTagUniverse, MaxNoteTags)

CallIdentifyTypeByTags ==
    /\ arg.kind = "noteTags"
    /\ call' = [op |-> "identifyTypeByTags",
                result |-> identifyTypeByTags(arg.noteTags, settings)]
    /\ UNCHANGED <<settings, vault, fileLabels, arg, folders, timers, inflight, dom, observer>>

CallValidateTagConfiguration ==
    /\ call' = [op |-> "validateTagConfiguration",
                result |-> validateTagConfiguration(settings)]
    /\ UNCHANGED <<settings, vault, fileLabels, arg, folders, timers, inflight, dom, observer>>

InitTags ==
    /\ settings = DEFAULT_SETTINGS
    /\ vault = EmptyMap
    /\ fileLabels = EmptyMap
    /\ call = Idle
    /\ arg \in [kind : {"noteTags"}, noteTags : NoteTagSeqs]
    /\ folders = {}
    /\ timers = {}
    /\ inflight = {}
    /\ dom = EmptyMap
    /\ observer = NoObserver

NextTags ==
    \/ \E value \in TagAreaValues : SetSourceTags(value)
    \/ \E value \in TagAreaValues : SetTopicTags(value)
    \/ \E value \in TagAreaValues : SetArgumentTags(value)
    \/ CallIdentifyTypeByTags
    \/ CallValidateTagConfiguration

SpecTags == InitTags /\ [][NextTags]_vars

(***************************************************************************)
(* The identification commands, on notes assembled from fragments          *)
(***************************************************************************)
\* vault.on('modify') ... updateFileLabel(file): the label cache entry of the file
\* becomes the identified type, or is removed when there is none
updateFileLabel_CacheKept(labels, path, content, st) == labels

updateFileLabel(labels, path, content, st) ==
    LET noteType == identifyNoteType(content, st)
    IN IF noteType # Null THEN MapSet(labels, path, noteType)
       ELSE MapDelete(labels, path)

\* command 'test-tag-identification': testTagIdentification(view.file)
TestTagIdentification(path) ==
    /\ path \in DOMAIN vault
    /\ call' = [op |-> "testTagIdentification",
                path |-> path,
                extractedTags |-> extractTagsFromContent(vault[path]),
                identifiedType |-> identifyNoteType(vault[path], settings)]
    /\ UNCHANGED <<settings, vault, fileLabels, arg, folders, timers, inflight, dom, observer>>

\* TFile.path of the note title.md in targetFolder ("" is the vault root), kept as
\* the pair of its folder and its base name
FilePath(targetFolder, title) == <<targetFolder, title>>

\* 'Sources/Metropolis light transport.md'
MetropolisPath == FilePath("Sources", "Metropolis light transport")

\* command 'test-metropolis-label'
TestMetropolisLabel ==
    /\ MetropolisPath \in DOMAIN vault
    /\ LET content == vault[MetropolisPath]
           extractedTags == extractTagsFromContent(content)
       IN /\ call' = [op |-> "testMetropolisLabel",
                      path |-> MetropolisPath,
                      extractedTags |-> extractedTags,
                      tagBasedType |-> identifyTypeByTags(extractedTags, settings),
                      identifiedType |-> identifyNoteType(content, settings)]
          /\ fileLabels' = updateFileLabel(fileLabels, MetropolisPath, content, settings)
    /\ UNCHANGED <<settings, vault, arg, folders, timers, inflight, dom, observer>>

\* pieces of note text
Fragments ==
    << <<"-","-","-","\n","t","a","g","s",":"," ","[","s","o","u","r","c","e",","," ","d","r","a","f","t","]","\n","-","-","-","\n">>,
       <<"-","-","-","\n","s","u","b","t","a","g","s",":"," ","[","x","]","\n","t","a","g","s",":"," ","[","s","o","u","r","c","e",","," ","d","r","a","f","t","]","\n","-","-","-","\n">>,
       <<"-","-","-","\n","t","a","g","s",":","\n"," "," ","-"," ","\"","#","r","e","s","e","a","r","c","h","\"","\n"," "," ","-"," ","t","o","p","i","c","\n","-","-","-","\n">>,
       <<"#","#"," ","T","a","g","s","\n","'","c","l","a","i","m","'",","," ","t","h","e","m","e","\n">>,
       <<"#","a","r","g","u","m","e","n","t"," ","#","S","o","u","r","c","e","\n">>,
       <<"*","*","T","y","p","e",":","*","*"," ","T","o","p","i","c","\n">>,
       <<"T","y","p","e",":"," ","T","o","p","i","c","\n">>,
       <<"*","*","T","y","p","e",":","*","*"," ","a","r","g","u","m","e","n","t","\n">> >>

MaxFragments == 2

RECURSIVE Concat(_)
Concat(seqs) == IF seqs = << >> THEN << >> ELSE Head(seqs) \o Concat(Tail(seqs))

\* every text made of at most MaxFragments fragments, the empty text included
Texts == {Concat(q) : q \in SeqsUpTo({Fragments[i] : i \in DOMAIN Fragments}, MaxFragments)}

\* the tag lists typed in the settings tab while testing
ScenarioSourceTags == <<"s","o","u","r","c","e",","," ","r","e","s","e","a","r","c","h">>

ClassifyArgumentValues == { << >>, <<"C","l","a","i","m">> }

InitClassify ==
    /\ settings = DEFAULT_SETTINGS
    /\ vault \in [{MetropolisPath} -> Texts]
    /\ fileLabels = EmptyMap
    /\ call = Idle
    /\ arg = NoArg
    /\ folders = {"Sources"}
    /\ timers = {}
    /\ inflight = {}
    /\ dom = EmptyMap
    /\ observer = NoObserver

NextClassify ==
    \/ \E value \in BOOLEAN : SetUseTagBasedIdentification(value)
    \/ SetSourceTags(ScenarioSourceTags)
    \/ \E value \in ClassifyArgumentValues : SetArgumentTags(value)
    \/ \E path \in DOMAIN vault : TestTagIdentification(path)
    \/ TestMetropolisLabel

SpecClassify == InitClassify /\ [][NextClassify]_vars

(***************************************************************************)
(* The file explorer and updateFileLabel                                   *)
(***************************************************************************)
\* the number of calls suspended at one time
MaxPending == 1

\* no element
NoNode == << >>

\* TFile.name of a path, the text the explorer shows for it
FileName(path) == path[2]

\* what a pending callback or call holds when it needs no path, no text
NoPath == << >>

\* updateFileLabel(file) suspended at 'await this.app.vault.read(file)', text
\* being what the read returns
PendingUpdate(path, text) ==
    [kind |-> "updateFileLabel", path |-> path, text |-> text, rest |-> << >>, value |-> FALSE]

\* attemptLabelUpdate's callback suspended at 'await this.identifyNoteType(file)'
PendingIdentify(path) ==
    [kind |-> "identifyNoteType", path |-> path, text |-> << >>, rest |-> << >>, value |-> FALSE]

\* the number of equal timeouts told apart: of more, MaxBurst are kept
MaxBurst == 2

Min(a, b) == IF a < b THEN a ELSE b

\* whether two timeouts differ in nothing but the number of their copies
SameTimer(t, u) == [t EXCEPT !.copies = 1] = [u EXCEPT !.copies = 1]

\* whether a timeout like timer is pending
Pending(timer) == \E u \in timers : SameTimer(u, timer)

\* setTimeout: one more timeout is pending; timer.copies equal ones are set
AddTimer(pending, timer) ==
    IF \E u \in pending : SameTimer(u, timer)
    THEN {IF SameTimer(u, timer)
          THEN [u EXCEPT !.copies = Min(@ + timer.copies, MaxBurst)] ELSE u : u \in pending}
    ELSE pending \cup {[timer EXCEPT !.copies = Min(@, MaxBurst)]}

\* the timeouts pending once each of n callers has set the timeout timer
Scheduled(pending, timer, n) ==
    IF n = 0 THEN pending ELSE AddTimer(pending, [timer EXCEPT !.copies = n])

\* the callback of one of the timer.copies equal timeouts runs
RemoveTimer(pending, timer) ==
    IF timer.copies > 1
    THEN (pending \ {timer}) \cup {[timer EXCEPT !.copies = @ - 1]}
    ELSE pending \ {timer}

\* the MutationObserver's setTimeout(() => this.refreshVisibleFileLabels(), 100)
MutationTimer == [kind |-> "mutation", path |-> NoPath, delay |-> 100, attempt |-> 0,
     copies |-> 1]

\* the setTimeout of refreshVisibleFileLabels, 50 ms
RefreshVisibleTimer == [kind |-> "refreshVisible", path |-> NoPath, delay |-> 50, attempt |-> 0,
     copies |-> 1]

\* the timeouts pending once the connected MutationObservers, each with its
\* own callback, have been told that elements were added to or removed from
\* the explorer
Observed(pending, obs, changed) ==
    IF changed THEN Scheduled(pending, MutationTimer, obs.active) ELSE pending

\* addLabelToElement(titleEl, file, noteType) on the labels of one file item, in
\* document order: the first existing label is removed, the new one appended
addLabelToElement_KeepExisting(labels, noteType) ==
    IF noteType # Null THEN Append(labels, noteType) ELSE labels

addLabelToElement(labels, noteType) ==
    LET remaining == IF labels # << >> THEN Tail(labels) ELSE labels
    IN IF noteType # Null THEN Append(remaining, noteType) ELSE remaining

\* the elements updateVisualLabel(file) can end at: the item of the file
\* (fileItems[file.path].titleEl, or [data-path] when no title text matched
\* before), or an item whose title text is the file's name, which a label
\* would change; NoNode when none of the three methods finds one
LookupTargets(tree, path) ==
    LET own == IF path \in DOMAIN tree THEN {path} ELSE {}
        byName == {q \in DOMAIN tree : FileName(q) = FileName(path) /\ tree[q] = << >>}
    IN IF own \cup byName = {} THEN {NoNode} ELSE own \cup byName

updateVisualLabel_CacheBefore(tree, labels, st, path, target) ==
    IF ~st.showFileExplorerLabels \/ target = NoNode THEN tree
    ELSE [tree EXCEPT ![target] =
             addLabelToElement(@, IF path \in DOMAIN fileLabels THEN fileLabels[path] ELSE Null)]

\* updateVisualLabel(file), target being the element its lookup ends at
updateVisualLabel(tree, labels, st, path, target) ==
    IF ~st.showFileExplorerLabels \/ target = NoNode THEN tree
    ELSE [tree EXCEPT ![target] =
             addLabelToElement(@, IF path \in DOMAIN labels THEN labels[path] ELSE Null)]

\* whether updateVisualLabel(file) removes or adds a label element
Mutates(tree, labels, st, path, target) ==
    /\ st.showFileExplorerLabels
    /\ target # NoNode
    /\ tree[target] # << >> \/ path \in DOMAIN labels

\* updateFileLabel(file) up to its await: vault.read rejects for a file that is
\* not in the vault, and the call ends there; pending is what else is suspended
StartUpdateFileLabel(path, pending) ==
    IF path \in DOMAIN vault
    THEN /\ inflight' = pending \cup {PendingUpdate(path, vault[path])}
         /\ call' = [op |-> "updateFileLabel", path |-> path, outcome |-> "reading"]
    ELSE /\ inflight' = pending
         /\ call' = [op |-> "updateFileLabel", path |-> path, outcome |-> "rejected"]

\* updateFileLabel(file) after its await; readFails: the read of a file deleted
\* in the meantime rejects; target: the element updateVisualLabel ends at
UpdateFileLabelContinue(pending, readFails, target) ==
    /\ pending \in inflight
    /\ pending.kind = "updateFileLabel"
    /\ readFails => pending.path \notin DOMAIN vault
    /\ target \in LookupTargets(dom, pending.path)
    /\ inflight' = inflight \ {pending}
    /\ IF readFails
       THEN /\ call' = [op |-> "updateFileLabel", path |-> pending.path, outcome |-> "rejected"]
            /\ UNCHANGED <<fileLabels, dom, timers>>
       ELSE /\ fileLabels' = updateFileLabel(fileLabels, pending.path, pending.text, settings)
            /\ dom' = updateVisualLabel(dom, fileLabels', settings, pending.path, target)
            /\ timers' = Observed(timers, observer,
                                   Mutates(dom, fileLabels', settings, pending.path, target))
            /\ call' = [op |-> "updateFileLabel", path |-> pending.path, outcome |-> "done"]
    /\ UNCHANGED <<settings, vault, arg, folders, observer>>

\* the number of file items the explorer shows at one time
MaxRendered == 1

\* the explorer renders the item of a file
Render(path) ==
    /\ path \in DOMAIN vault
    /\ path \notin DOMAIN dom
    /\ dom' = MapSet(dom, path, << >>)
    /\ timers' = Observed(timers, observer, TRUE)
    /\ call' = [op |-> "render"]
    /\ UNCHANGED <<settings, vault, fileLabels, arg, folders, inflight, observer>>

\* the explorer removes the item of a file, with the labels in it
Unrender(path) ==
    /\ path \in DOMAIN dom
    /\ dom' = MapDelete(dom, path)
    /\ timers' = Observed(timers, observer, TRUE)
    /\ call' = [op |-> "unrender"]
    /\ UNCHANGED <<settings, vault, fileLabels, arg, folders, inflight, observer>>

(***************************************************************************)
(* createNoteFromTemplate and the callbacks it starts                      *)
(***************************************************************************)
\* the default folder of a note type ('' when default folders are not used)
defaultFolderOf(type, st) ==
    IF ~st.useDefaultFolders THEN ""
    ELSE CASE type = "source" -> st.defaultSourcesFolder
           [] type = "topic" -> st.defaultTopicsFolder
           [] type = "argument" -> st.defaultArgumentsFolder

\* the setTimeout of the vault 'create' handler: updateFileLabel(file) after 100 ms
CreateEventTimer(path) == [kind |-> "createEvent", path |-> path, delay |-> 100, attempt |-> 0,
     copies |-> 1]

\* the setTimeout of attemptLabelUpdate(delay, attempt)
RetryTimer(path, delay, attempt) ==
    [kind |-> "retry", path |-> path, delay |-> delay, attempt |-> attempt, copies |-> 1]

\* the titles typed into the creation dialog, and their characters
Titles == {"Metropolis light transport"}

TitleText ==
    [title \in Titles |->
        <<"M","e","t","r","o","p","o","l","i","s"," ","l","i","g","h","t"," ","t","r","a","n","s","p","o","r","t">>]

\* the folder typed into the dialog ("": left empty)
FolderInputs == {"", "Inbox"}

\* new Date().toISOString().split('T')[0]
Dates == {<<"2","0","2","6","-","1","1","-","0","3">>}

\* the metadata argument: undefined for topic and argument notes, the dialog's
\* fields for a source note (no "$" in them: a "$" would be read as a
\* replacement pattern)
NoMetadata ==
    [given |-> FALSE, doi |-> << >>, summary |-> << >>, year |-> << >>, journal |-> << >>,
     rating |-> 0, author |-> << >>, pdfLink |-> << >>, bibtex |-> << >>]

BlankMetadata == [NoMetadata EXCEPT !.given = TRUE]

FilledMetadata ==
    [given |-> TRUE,
     doi |-> <<"1","0",".","1","1","4","5","/","2","5","8","7","3","4",".","2","5","8","7","7","5">>,
     summary |-> <<"R","o","b","u","s","t"," ","p","a","t","h"," ","s","a","m","p","l","i","n","g">>,
     year |-> <<"1","9","9","7">>,
     journal |-> <<"S","I","G","G","R","A","P","H">>,
     rating |-> 4,
     author |-> <<"V","e","a","c","h",","," ","G","u","i","b","a","s">>,
     pdfLink |-> <<"m","l","t",".","p","d","f">>,
     bibtex |-> <<"@","i","n","p","r","o","c","e","e","d","i","n","g","s","{","v","e","a","c","h","1","9","9","7",",","\n"," "," ","t","i","t","l","e","=","{","M","e","t","r","o","p","o","l","i","s"," ","l","i","g","h","t"," ","t","r","a","n","s","p","o","r","t","}","\n","}">>]

MetadataFor(type) == IF type = "source" THEN {BlankMetadata, FilledMetadata} ELSE {NoMetadata}

\* the number of notes the vault is let grow to
MaxNotes == 1

\* createNoteFromTemplate(title, type, folder, metadata), with the vault's 'create'
\* event that vault.create raises; createFolderFails: whether vault.createFolder,
\* when called, rejects; vault.create throws when the path is taken
CreateNoteFromTemplate(title, type, folder, metadata, date, createFolderFails) ==
    LET targetFolder == IF folder # "" THEN folder ELSE defaultFolderOf(type, settings)
        filePath == FilePath(targetFolder, title)
        folderMissing == targetFolder # "" /\ targetFolder \notin folders
        content == newNoteContent(TitleText[title], date, type, metadata, settings)
        report(outcome) == [op |-> "createNoteFromTemplate", path |-> filePath,
                            type |-> type, outcome |-> outcome]
    IN /\ filePath \in DOMAIN vault \/ Cardinality(DOMAIN vault) < MaxNotes
       /\ IF folderMissing /\ createFolderFails
          THEN \* createFolder rejects outside the try block: the call ends there
               /\ call' = report("rejected")
               /\ UNCHANGED <<vault, fileLabels, folders, timers>>
          ELSE /\ folders' = IF folderMissing THEN folders \cup {targetFolder} ELSE folders
               /\ IF filePath \in DOMAIN vault
                  THEN \* vault.create throws: Notice('Error creating note: ...')
                       /\ call' = report("error")
                       /\ UNCHANGED <<vault, fileLabels, timers>>
                  ELSE /\ vault' = MapSet(vault, filePath, content)
                       /\ call' = report("created")
                       /\ fileLabels' = IF settings.showFileExplorerLabels
                                        THEN MapSet(fileLabels, filePath, type)
                                        ELSE fileLabels
                       /\ timers' = LET created == Scheduled(timers, CreateEventTimer(filePath),
                                                              observer.handlers)
                                     IN IF settings.showFileExplorerLabels
                                        THEN AddTimer(created, RetryTimer(filePath, 500, 1))
                                        ELSE created
       /\ UNCHANGED <<settings, arg, inflight, dom, observer>>

\* the 100 ms callback of the 'create' handler: updateFileLabel(file) starts
CreateEventCallback(timer) ==
    /\ timer \in timers
    /\ timer.kind = "createEvent"
    /\ Cardinality(inflight) < MaxPending
    /\ timers' = RemoveTimer(timers, timer)
    /\ StartUpdateFileLabel(timer.path, inflight)
    /\ UNCHANGED <<settings, vault, fileLabels, arg, folders, dom, observer>>

AttemptLabelUpdate_NoLimit(timer) ==
    LET element == timer.path \in DOMAIN dom
    IN /\ timer \in timers
       /\ timer.kind = "retry"
       /\ IF element
          THEN /\ timers' = RemoveTimer(timers, timer)
               /\ inflight' = IF timer.path \in DOMAIN vault
                              THEN inflight \cup {PendingIdentify(timer.path)}
                              ELSE inflight
          ELSE /\ timers' = AddTimer(RemoveTimer(timers, timer),
                                      RetryTimer(timer.path, timer.delay * 2, timer.attempt + 1))
               /\ UNCHANGED inflight
       /\ call' = [op |-> "attemptLabelUpdate", path |-> timer.path,
                   attempt |-> timer.attempt, found |-> element,
                   outcome |-> IF element /\ timer.path \notin DOMAIN vault
                               THEN "rejected" ELSE "done"]
       /\ UNCHANGED <<settings, vault, fileLabels, arg, folders, dom, observer>>

\* the callback of attemptLabelUpdate(delay, attempt): document.querySelector
\* finds the file's element when the explorer has rendered it; then
\* identifyNoteType(file) is awaited, else the next attempt is scheduled
AttemptLabelUpdate(timer) ==
    LET element == timer.path \in DOMAIN dom
    IN /\ timer \in timers
       /\ timer.kind = "retry"
       /\ IF element
          THEN /\ timers' = RemoveTimer(timers, timer)
               /\ inflight' = IF timer.path \in DOMAIN vault
                              THEN inflight \cup {PendingIdentify(timer.path)}
                              ELSE inflight
          ELSE /\ timers' = IF timer.attempt < 5
                             THEN AddTimer(RemoveTimer(timers, timer),
                                           RetryTimer(timer.path, timer.delay * 2,
                                                      timer.attempt + 1))
                             ELSE RemoveTimer(timers, timer)
               /\ UNCHANGED inflight
       /\ call' = [op |-> "attemptLabelUpdate", path |-> timer.path,
                   attempt |-> timer.attempt, found |-> element,
                   outcome |-> IF element /\ timer.path \notin DOMAIN vault
                               THEN "rejected" ELSE "done"]
       /\ UNCHANGED <<settings, vault, fileLabels, arg, folders, dom, observer>>

\* attemptLabelUpdate after 'await this.identifyNoteType(file)': its result is
\* not used, updateFileLabel(file) starts
AttemptLabelUpdateContinue(pending) ==
    /\ pending \in inflight
    /\ pending.kind = "identifyNoteType"
    /\ StartUpdateFileLabel(pending.path, inflight \ {pending})
    /\ UNCHANGED <<settings, vault, fileLabels, arg, folders, timers, dom, observer>>

InitCreate ==
    /\ settings = DEFAULT_SETTINGS
    /\ vault = EmptyMap
    /\ fileLabels = EmptyMap
    /\ call = Idle
    /\ arg = NoArg
    /\ folders = {}
    /\ timers = {}
    /\ inflight = {}
    /\ dom = EmptyMap
    /\ observer = NoObserver

NextCreate ==
    \/ \E value \in BOOLEAN : SetUseTagBasedIdentification(value)
    \/ \E value \in BOOLEAN : SetUseDefaultFolders(value)
    \/ \E title \in Titles, type \in STANoteTypes, folder \in FolderInputs, date \in Dates,
          createFolderFails \in BOOLEAN :
          \E metadata \in MetadataFor(type) :
             CreateNoteFromTemplate(title, type, folder, metadata, date, createFolderFails)
    \/ \E timer \in timers : CreateEventCallback(timer)
    \/ \E timer \in timers : AttemptLabelUpdate(timer)
    \/ \E pending \in inflight : AttemptLabelUpdateContinue(pending)
    \/ \E pending \in inflight, readFails \in BOOLEAN, target \in DOMAIN dom \cup {NoNode} :
          UpdateFileLabelContinue(pending, readFails, target)
    \/ \E path \in DOMAIN vault : Cardinality(DOMAIN dom) < MaxRendered /\ Render(path)
    \/ \E path \in DOMAIN dom : Unrender(path)

SpecCreate == InitCreate /\ [][NextCreate]_vars

\* a pending setTimeout callback of attemptLabelUpdate is run in the end
SpecCreateFair ==
    SpecCreate /\ WF_vars(\E timer \in timers : AttemptLabelUpdate(timer))

(***************************************************************************)
(* The vault's events and the handlers initializeFileLabeling registers    *)
(***************************************************************************)
\* the notes of the vault while its events are followed: two of them have the
\* same name in different folders
LabelPaths == {FilePath("Sources", "A"), FilePath("Topics", "A"), FilePath("Sources", "B")}

\* what is written into these notes
SourceText == <<"#","s","o","u","r","c","e","\n">>

TopicText == <<"#","t","o","p","i","c","\n">>

PlainText == <<"p","l","a","i","n","\n">>

NoteTexts == {SourceText, TopicText, PlainText}

\* the number of notes in the vault at one time
MaxFiles == 2

\* the number of timeouts pending at one time
MaxTimers == 1


\* vault 'create' of a markdown file: setTimeout(() => updateFileLabel(file), 100)
VaultCreate(path, text) ==
    /\ path \notin DOMAIN vault
    /\ Cardinality(DOMAIN vault) < MaxFiles
    /\ Cardinality(timers) < MaxTimers
    /\ vault' = MapSet(vault, path, text)
    /\ timers' = Scheduled(timers, CreateEventTimer(path), observer.handlers)
    /\ call' = [op |-> "create", calls |-> observer.handlers]
    /\ UNCHANGED <<settings, fileLabels, arg, folders, inflight, dom, observer>>

VaultModify_Cancels(path, text) ==
    /\ path \in DOMAIN vault
    /\ vault[path] # text
    /\ vault' = MapSet(vault, path, text)
    /\ inflight' = {u \in inflight : u.path # path} \cup {PendingUpdate(path, text)}
    /\ call' = [op |-> "modify", calls |-> observer.handlers]
    /\ UNCHANGED <<settings, fileLabels, arg, folders, timers, dom, observer>>

\* vault 'modify' of a markdown file: updateFileLabel(file) starts, once for
\* each registration of the handler (calls); the calls, which read the same
\* text, are not told apart
VaultModify(path, text) ==
    /\ path \in DOMAIN vault
    /\ vault[path] # text
    /\ vault' = MapSet(vault, path, text)
    /\ inflight' = IF observer.handlers > 0
                   THEN inflight \cup {PendingUpdate(path, text)} ELSE inflight
    /\ call' = [op |-> "modify", calls |-> observer.handlers]
    /\ UNCHANGED <<settings, fileLabels, arg, folders, timers, dom, observer>>

\* vault 'delete': this.fileLabels.delete(file.path)
VaultDelete(path) ==
    /\ path \in DOMAIN vault
    /\ vault' = MapDelete(vault, path)
    /\ fileLabels' = IF observer.handlers > 0 THEN MapDelete(fileLabels, path) ELSE fileLabels
    /\ call' = [op |-> "delete", path |-> path]
    /\ UNCHANGED <<settings, arg, folders, timers, inflight, dom, observer>>

\* the path a TFile held by a callback shows once oldPath is renamed to newPath
RenamedPath(path, oldPath, newPath) == IF path = oldPath THEN newPath ELSE path

\* the vault's 'rename' handler on the label cache
renameFileLabel_KeepOld(labels, oldPath, newPath) ==
    IF oldPath \in DOMAIN labels THEN MapSet(labels, newPath, labels[oldPath]) ELSE labels

renameFileLabel(labels, oldPath, newPath) ==
    IF oldPath \in DOMAIN labels
    THEN MapSet(MapDelete(labels, oldPath), newPath, labels[oldPath])
    ELSE labels

\* vault 'rename': the TFile, which pending callbacks hold too, gets the new path
VaultRename(oldPath, newPath) ==
    /\ oldPath \in DOMAIN vault
    /\ newPath \notin DOMAIN vault
    /\ vault' = MapSet(MapDelete(vault, oldPath), newPath, vault[oldPath])
    /\ fileLabels' = IF observer.handlers > 0
                     THEN renameFileLabel(fileLabels, oldPath, newPath) ELSE fileLabels
    /\ timers' = {[timer EXCEPT !.path = RenamedPath(@, oldPath, newPath)] : timer \in timers}
    /\ inflight' = {[pending EXCEPT !.path = RenamedPath(@, oldPath, newPath),
                                    !.rest = [i \in DOMAIN @ |-> RenamedPath(@[i], oldPath, newPath)]]
                    : pending \in inflight}
    /\ call' = [op |-> "rename", path |-> newPath, oldPath |-> oldPath]
    /\ UNCHANGED <<settings, arg, folders, dom, observer>>

InitLabels ==
    /\ settings = DEFAULT_SETTINGS
    /\ vault = EmptyMap
    /\ fileLabels = EmptyMap
    /\ call = Idle
    /\ arg = NoArg
    /\ folders = {"Sources", "Topics"}
    /\ timers = {}
    /\ inflight = {}
    /\ dom = EmptyMap
    /\ observer = NoObserver

NextLabels ==
    \/ \E path \in LabelPaths, text \in NoteTexts : VaultCreate(path, text)
    \/ \E path \in LabelPaths, text \in NoteTexts :
          Cardinality(inflight) < MaxPending /\ VaultModify(path, text)
    \/ \E path \in LabelPaths : VaultDelete(path)
    \/ \E oldPath \in LabelPaths, newPath \in LabelPaths : VaultRename(oldPath, newPath)
    \/ \E timer \in timers : CreateEventCallback(timer)
    \/ \E pending \in inflight, readFails \in BOOLEAN, target \in DOMAIN dom \cup {NoNode} :
          UpdateFileLabelContinue(pending, readFails, target)
    \/ \E path \in DOMAIN vault : Cardinality(DOMAIN dom) < MaxRendered /\ Render(path)
    \/ \E path \in DOMAIN dom : Unrender(path)

SpecLabels == InitLabels /\ [][NextLabels]_vars

(***************************************************************************)
(* STANoteCreationModal: the DOI lookup and createNote                     *)
(***************************************************************************)
\* doi.replace(/^(https?:\/\/)?(dx\.)?doi\.org\//, '')
cleanDOI(doi) ==
    LET afterScheme == IF StartsWithAt(doi, 1, <<"h","t","t","p","s",":","/","/">>) THEN Len(<<"h","t","t","p","s",":","/","/">>) + 1
                       ELSE IF StartsWithAt(doi, 1, <<"h","t","t","p",":","/","/">>) THEN Len(<<"h","t","t","p",":","/","/">>) + 1
                       ELSE 1
        afterDx(i) == IF StartsWithAt(doi, i, <<"d","x",".">>) THEN i + Len(<<"d","x",".">>) ELSE i
        \* the optional groups are tried present first, then absent
        tries == <<afterDx(afterScheme), afterScheme, afterDx(1), 1>>
        hits == {k \in 1..4 : StartsWithAt(doi, tries[k], <<"d","o","i",".","o","r","g","/">>)}
    IN IF hits = {} THEN doi
       ELSE SubSeq(doi, tries[First(hits)] + Len(<<"d","o","i",".","o","r","g","/">>), Len(doi))

\* what a fetch ends in: a response that is ok, one that is not, or a network
\* error
FetchOutcomes == {"ok", "notOk", "error"}

\* the texts doi.org and citation.crosscite.org answer with
DoiOrgText ==
    <<" ","@","i","n","p","r","o","c","e","e","d","i","n","g","s","{","V","e","a","c","h",
          "_","1","9","9","7",","," ","t","i","t","l","e","=","{","M","e","t","r","o","p","o",
          "l","i","s"," ","l","i","g","h","t"," ","t","r","a","n","s","p","o","r","t","}","}",
          "\n">>

CrossciteText ==
    <<"@","m","i","s","c","{","v","e","a","c","h","1","9","9","7","}">>

NoBibtexText ==
    <<"D","O","I"," ","N","o","t"," ","F","o","u","n","d","\n">>

\* the 'message' of a CrossRef answer: the year of published-print and of
\* published-online as their digits (<< >>: absent), the authors, the first
\* title and the first container-title (<< >>: absent)
FullMessage ==
    [present |-> TRUE,
     publishedPrint |-> << >>,
     publishedOnline |-> <<"1","9","9","7">>,
     author |-> << [family |-> <<"V","e","a","c","h">>, given |-> <<"E","r","i","c">>],
                   [family |-> <<"G","u","i","b","a","s">>, given |-> << >>] >>,
     title |-> <<"M","e","t","r","o","p","o","l","i","s"," ","l","i","g","h","t"," ","t","r","a","n",
          "s","p","o","r","t">>,
     containerTitle |-> <<"S","I","G","G","R","A","P","H">>]

SparseMessage ==
    [present |-> TRUE, publishedPrint |-> << >>, publishedOnline |-> << >>, author |-> << >>,
     title |-> << >>, containerTitle |-> << >>]

\* no 'message' in the answer
NoMessage == [SparseMessage EXCEPT !.present = FALSE]

CrossRefMessages == {FullMessage, SparseMessage, NoMessage}

\* (author.family || '') + ', ' + (author.given || ''), with .replace(/, $/, '')
AuthorName(author) ==
    LET joined == author.family \o <<",", " ">> \o author.given
        n == Len(joined)
    IN IF joined[n - 1] = "," /\ joined[n] = " " THEN SubSeq(joined, 1, n - 2) ELSE joined

RECURSIVE JoinAnd(_)
JoinAnd(names) ==
    IF names = << >> THEN << >>
    ELSE IF Len(names) = 1 THEN names[1]
    ELSE names[1] \o <<" ","a","n","d"," ">> \o JoinAnd(Tail(names))

OrElse(value, default) == IF value # << >> THEN value ELSE default

\* generateBibTeX(metadata, doi); thisYear: new Date().getFullYear()
generateBibTeX(metadata, doi, thisYear) ==
    LET year == OrElse(metadata.publishedPrint, OrElse(metadata.publishedOnline, thisYear))
        authors == OrElse(JoinAnd([i \in DOMAIN metadata.author |-> AuthorName(metadata.author[i])]),
                          <<"U","n","k","n","o","w","n">>)
        title == OrElse(metadata.title, <<"U","n","k","n","o","w","n"," ","T","i","t","l","e">>)
        journal == OrElse(metadata.containerTitle, <<"U","n","k","n","o","w","n"," ","J","o","u","r","n","a","l">>)
        firstAuthorLastName ==
            IF metadata.author # << >> THEN OrElse(metadata.author[1].family, <<"u","n","k","n","o","w","n">>)
            ELSE <<"u","n","k","n","o","w","n">>
        key == toLowerCase(firstAuthorLastName) \o year
    IN <<"@","a","r","t","i","c","l","e","{">> \o key \o <<",","\n"," "," ","t","i","t","l","e","=","{">> \o title \o <<"}",",","\n"," "," ","a","u","t","h","o","r","=","{">> \o authors
       \o <<"}",",","\n"," "," ","j","o","u","r","n","a","l","=","{">> \o journal \o <<"}",",","\n"," "," ","y","e","a","r","=","{">> \o year
       \o <<"}",",","\n"," "," ","d","o","i","=","{">> \o doi \o <<"}","\n","}">>

\* what a call ends in: a value returned, or an error thrown
Returned(value) == [thrown |-> FALSE, value |-> value]

Thrown == [thrown |-> TRUE, value |-> << >>]

\* fetchDOIMetadata(doi), answer being what the fetch of api.crossref.org ends
\* in: a network error and a response that is not ok are thrown
fetchDOIMetadata(doi, answer) ==
    IF answer.outcome # "ok" THEN Thrown ELSE Returned(answer.message)

\* whether a fetched text is taken: bibtex.trim() && bibtex.includes('@')
UsableBibtex(text) == trim(text) # << >> /\ includes(text, "@")

\* fetchBibTeXFromDOI(doi): doi.org, then citation.crosscite.org, then the
\* CrossRef metadata; net: what each of the three fetches ends in
fetchBibTeXFromDOI(doi, net, thisYear) ==
    LET metadata == fetchDOIMetadata(doi, net.crossRef)
    IN IF net.doiOrg.outcome = "ok" /\ UsableBibtex(net.doiOrg.text)
       THEN Returned(trim(net.doiOrg.text))
       ELSE IF net.crosscite.outcome = "ok" /\ UsableBibtex(net.crosscite.text)
       THEN Returned(trim(net.crosscite.text))
       ELSE IF ~metadata.thrown /\ metadata.value.present
       THEN Returned(generateBibTeX(metadata.value, cleanDOI(doi), thisYear))
       ELSE Thrown

\* the dialog before a lookup has stored a citation
Modal(type) == [kind |-> "modal", type |-> type, fetchedBibTeX |-> << >>]

\* the command opens the dialog for a note type
OpenModal(type) ==
    /\ arg' = Modal(type)
    /\ call' = [op |-> "open", outcome |-> "done"]
    /\ UNCHANGED <<settings, vault, fileLabels, folders, timers, inflight, dom, observer>>

\* lookupDOI(): the Lookup button of the source dialog; answer: what the fetch of
\* the metadata ends in, net: what the fetches of fetchBibTeXFromDOI end in
LookupDOI(doiInput, answer, net, thisYear) ==
    LET doi == trim(doiInput)
        metadata == fetchDOIMetadata(doi, answer)
        bibtex == fetchBibTeXFromDOI(doi, net, thisYear)
        outcome == IF doi = << >> THEN "noDoi"
                   ELSE IF metadata.thrown THEN "error"
                   ELSE IF ~metadata.value.present THEN "notFound"
                   ELSE IF bibtex.thrown \/ bibtex.value = << >> THEN "metadataOnly"
                   ELSE "loaded"
    IN /\ arg.kind = "modal"
       /\ arg.type = "source"
       /\ arg' = IF outcome = "loaded" THEN [arg EXCEPT !.fetchedBibTeX = bibtex.value] ELSE arg
       /\ call' = [op |-> "lookupDOI", outcome |-> outcome]
       /\ UNCHANGED <<settings, vault, fileLabels, folders, timers, inflight, dom, observer>>

\* the title of the note for the trimmed text of the title field
TitleOf(text) == CHOOSE title \in Titles : TitleText[title] = text

\* the citation createNote puts into the metadata of a source note; again: what
\* the fetch of the metadata in the catch block ends in
noteBibtex(doi, fetched, net, again, thisYear) ==
    LET first == fetchBibTeXFromDOI(doi, net, thisYear)
        metadataForBibTeX == fetchDOIMetadata(doi, again)
    IN IF doi = << >> THEN Returned(<< >>)
       ELSE IF fetched # << >> THEN Returned(fetched)
       ELSE IF ~first.thrown THEN first
       ELSE IF metadataForBibTeX.thrown THEN Thrown
       ELSE IF metadataForBibTeX.value.present
       THEN Returned(generateBibTeX(metadataForBibTeX.value, doi, thisYear))
       ELSE Returned(<< >>)

\* createNote(): the Create button; the fields of the dialog are its inputs
CreateNote(titleInput, folder, doiInput, fields, net, again, date, createFolderFails) ==
    LET title == trim(titleInput)
        doi == trim(doiInput)
        bibtex == noteBibtex(doi, arg.fetchedBibTeX, net, again, SubSeq(date, 1, 4))
        metadata == IF arg.type = "source"
                    THEN [fields EXCEPT !.given = TRUE, !.doi = doi, !.bibtex = bibtex.value]
                    ELSE NoMetadata
    IN /\ arg.kind = "modal"
       /\ IF title = << >>
          THEN \* Notice('Please enter a title')
               /\ call' = [op |-> "createNote", outcome |-> "noTitle"]
               /\ UNCHANGED <<settings, vault, fileLabels, arg, folders, timers, inflight, dom, observer>>
          ELSE IF arg.type = "source" /\ bibtex.thrown
          THEN \* the error of fetchDOIMetadata leaves createNote
               /\ call' = [op |-> "createNote", outcome |-> "rejected"]
               /\ UNCHANGED <<settings, vault, fileLabels, arg, folders, timers, inflight, dom, observer>>
          ELSE CreateNoteFromTemplate(TitleOf(title), arg.type, folder, metadata, date,
                                      createFolderFails)

\* what is typed into the title and the DOI field
TitleInputs ==
    { <<" ">>,
      <<" ","M","e","t","r","o","p","o","l","i","s"," ","l","i","g","h","t"," ","t","r","a",
          "n","s","p","o","r","t"," ">> }

DoiInputs ==
    { << >>,
      <<" ","h","t","t","p","s",":","/","/","d","o","i",".","o","r","g","/","1","0",".","1",
          "1","4","5","/","2","5","8","7","3","4",".","2","5","8","7","7","5">> }

\* the other fields of the source dialog, and its folder field left empty
DialogFields == {FilledMetadata}

DialogFolders == {""}

\* what the fetches of the three services can end in
Answer(outcome, text, message) == [outcome |-> outcome, text |-> text, message |-> message]

NoAnswer == Answer("error", << >>, NoMessage)

DoiOrgAnswers == {Answer("ok", DoiOrgText, NoMessage), Answer("ok", NoBibtexText, NoMessage)}

CrossciteAnswers == {Answer("ok", CrossciteText, NoMessage), NoAnswer}

CrossRefAnswers ==
    {Answer("ok", << >>, message) : message \in CrossRefMessages}
    \cup {Answer("notOk", << >>, NoMessage), NoAnswer}

\* the ends of the fetches fetchBibTeXFromDOI makes: none after the first text
\* it takes
Nets ==
    {net \in [doiOrg : DoiOrgAnswers, crosscite : CrossciteAnswers, crossRef : CrossRefAnswers] :
        /\ UsableBibtex(net.doiOrg.text) => net.crosscite = NoAnswer
        /\ (UsableBibtex(net.doiOrg.text) \/ net.crosscite # NoAnswer) => net.crossRef = NoAnswer}

NoNet == [doiOrg |-> NoAnswer, crosscite |-> NoAnswer, crossRef |-> NoAnswer]

\* the fetches lookupDOI makes after the metadata: those of fetchBibTeXFromDOI
\* when there is a DOI and the metadata came
NetsOfLookupDOI(doiInput, answer) ==
    IF trim(doiInput) # << >> /\ answer.outcome = "ok" /\ answer.message.present
    THEN Nets ELSE {NoNet}

\* the fetches createNote makes for the DOI field: those of fetchBibTeXFromDOI,
\* and the one of the catch block when that has thrown
NetsOfCreateNote(doiInput) ==
    IF arg.type = "source" /\ trim(doiInput) # << >> /\ arg.fetchedBibTeX = << >>
    THEN Nets ELSE {NoNet}

AgainOfCreateNote(doiInput, net, thisYear) ==
    IF /\ arg.type = "source" /\ trim(doiInput) # << >> /\ arg.fetchedBibTeX = << >>
       /\ fetchBibTeXFromDOI(trim(doiInput), net, thisYear).thrown
    THEN CrossRefAnswers ELSE {NoAnswer}

InitModal ==
    /\ settings = DEFAULT_SETTINGS
    /\ vault = EmptyMap
    /\ fileLabels = EmptyMap
    /\ call = Idle
    /\ arg \in {Modal(type) : type \in STANoteTypes}
    /\ folders = {}
    /\ timers = {}
    /\ inflight = {}
    /\ dom = EmptyMap
    /\ observer = NoObserver

NextModal ==
    \/ \E type \in STANoteTypes : OpenModal(type)
    \/ \E doiInput \in DoiInputs, answer \in CrossRefAnswers, date \in Dates :
          \E net \in NetsOfLookupDOI(doiInput, answer) :
             LookupDOI(doiInput, answer, net, SubSeq(date, 1, 4))
    \/ \E titleInput \in TitleInputs, folder \in DialogFolders, date \in Dates,
          doiInput \in (IF arg.type = "source" THEN DoiInputs ELSE {<< >>}),
          fields \in (IF arg.type = "source" THEN DialogFields ELSE {BlankMetadata}),
          createFolderFails \in BOOLEAN :
          \E net \in NetsOfCreateNote(doiInput) :
             \E again \in AgainOfCreateNote(doiInput, net, SubSeq(date, 1, 4)) :
                CreateNote(titleInput, folder, doiInput, fields, net, again, date,
                           createFolderFails)

SpecModal == InitModal /\ [][NextModal]_vars

(***************************************************************************)
(* initializeFileLabeling, cleanupFileLabeling and the refresh of labels   *)
(***************************************************************************)
\* the toggle's onChange suspended at 'await this.plugin.saveSettings()'
PendingToggle(value) ==
    [kind |-> "toggle", path |-> NoPath, text |-> << >>, rest |-> << >>, value |-> value]

\* the callback onload's initializeFileLabeling has handed to onLayoutReady
PendingLayoutReady ==
    [kind |-> "layoutReady", path |-> NoPath, text |-> << >>, rest |-> << >>, value |-> FALSE]

\* refreshAllFileLabels suspended in updateFileLabel(file) at the read of path,
\* rest being the files of getMarkdownFiles() that follow
PendingRefresh(path, text, rest) ==
    [kind |-> "refreshAllFileLabels", path |-> path, text |-> text, rest |-> rest,
     value |-> FALSE]

\* setTimeout(() => this.setupFileExplorerObserver(), 1000)
SetupObserverTimer == [kind |-> "setupObserver", path |-> NoPath, delay |-> 1000, attempt |-> 0,
     copies |-> 1]

\* the setTimeout of command 'refresh-file-explorer': refreshAllFileLabels in 100 ms
RefreshAllTimer == [kind |-> "refreshAll", path |-> NoPath, delay |-> 100, attempt |-> 0,
     copies |-> 1]

\* the number of MutationObservers connected at one time
MaxObservers == 2

Orders_FirstOnly(S) == IF S = {} THEN {<< >>} ELSE {<<x>> : x \in S}

\* the orders in which the elements of a set can be gone through
RECURSIVE Orders(_)
Orders(S) ==
    IF S = {} THEN {<< >>}
    ELSE UNION {{<<x>> \o order : order \in Orders(S \ {x})} : x \in S}

\* setupFileExplorerObserver(): a new observer is connected and kept in the
\* field when the explorer and its container are found, else the call is
\* repeated in 1000 ms
setupFileExplorerObserver(obs, explorerFound) ==
    IF explorerFound THEN [obs EXCEPT !.active = @ + 1, !.refActive = TRUE] ELSE obs

\* refreshAllFileLabels() up to its first await, files being the result of
\* getMarkdownFiles(); with no file, refreshVisibleFileLabels() sets its timeout
StartRefreshAll(files, pending, scheduled) ==
    IF files = << >>
    THEN /\ inflight' = pending
         /\ timers' = AddTimer(scheduled, RefreshVisibleTimer)
    ELSE /\ inflight' = pending \cup {PendingRefresh(Head(files), vault[Head(files)], Tail(files))}
         /\ timers' = scheduled

\* the number of registrations of the vault's handlers told apart
MaxHandlers == 2

\* initializeFileLabeling()'s registerEvent(this.app.vault.on(...)) calls: the
\* four handlers are registered once more
registerEvents(obs) == [obs EXCEPT !.handlers = Min(@ + 1, MaxHandlers)]

\* the callback of onLayoutReady: setupFileExplorerObserver(), refreshAllFileLabels()
LayoutReadyCallback(obs, explorerFound, files, pending) ==
    /\ explorerFound => observer.active < MaxObservers
    /\ observer' = setupFileExplorerObserver(obs, explorerFound)
    /\ StartRefreshAll(files, pending,
                       IF explorerFound THEN timers ELSE AddTimer(timers, SetupObserverTimer))

\* the workspace's layout becomes ready after onload
LayoutReady(pending, explorerFound, files) ==
    /\ pending \in inflight
    /\ pending.kind = "layoutReady"
    /\ files \in Orders(DOMAIN vault)
    /\ LayoutReadyCallback(observer, explorerFound, files, inflight \ {pending})
    /\ call' = [op |-> "initializeFileLabeling", outcome |-> "done"]
    /\ UNCHANGED <<settings, vault, fileLabels, arg, folders, dom>>

\* the 1000 ms callback: setupFileExplorerObserver() again
SetupObserverCallback(timer, explorerFound) ==
    /\ timer \in timers
    /\ timer.kind = "setupObserver"
    /\ explorerFound => observer.active < MaxObservers
    /\ observer' = setupFileExplorerObserver(observer, explorerFound)
    /\ timers' = IF explorerFound THEN RemoveTimer(timers, timer) ELSE timers
    /\ call' = [op |-> "setupFileExplorerObserver", outcome |-> "done"]
    /\ UNCHANGED <<settings, vault, fileLabels, arg, folders, inflight, dom>>

\* the 'Show file explorer labels' toggle up to 'await saveSettings()'
SetShowFileExplorerLabels(value) ==
    /\ value # settings.showFileExplorerLabels
    /\ Cardinality(inflight) < MaxPending
    /\ settings' = [settings EXCEPT !.showFileExplorerLabels = value]
    /\ inflight' = inflight \cup {PendingToggle(value)}
    /\ call' = [op |-> "setShowFileExplorerLabels", outcome |-> "saving"]
    /\ UNCHANGED <<vault, fileLabels, arg, folders, timers, dom, observer>>

\* cleanupFileLabeling() on the observers: the one the field refers to is
\* disconnected, if it is connected
disconnect(obs) ==
    IF obs.refActive THEN [obs EXCEPT !.active = @ - 1, !.refActive = FALSE] ELSE obs

cleanupLabels_RemoveItems(tree) == EmptyMap

\* cleanupFileLabeling() on the explorer: every label is removed
cleanupLabels_KeepLabels(tree) == tree

cleanupLabels(tree) == [node \in DOMAIN tree |-> << >>]

\* the toggle's onChange after saveSettings: initializeFileLabeling() when
\* switched on (the layout is ready, its callback runs at once), else
\* cleanupFileLabeling(): the observer of the field is disconnected, the
\* labels are removed, the cache is cleared
ShowLabelsContinue(pending, explorerFound, files) ==
    /\ pending \in inflight
    /\ pending.kind = "toggle"
    /\ IF pending.value
       THEN /\ files \in Orders(DOMAIN vault)
            /\ LayoutReadyCallback(registerEvents(observer), explorerFound, files,
                                   inflight \ {pending})
            /\ call' = [op |-> "initializeFileLabeling", outcome |-> "done"]
            /\ UNCHANGED <<fileLabels, dom>>
       ELSE /\ files = << >>
            /\ ~explorerFound
            /\ observer' = disconnect(observer)
            /\ dom' = cleanupLabels(dom)
            /\ fileLabels' = EmptyMap
            /\ inflight' = inflight \ {pending}
            /\ timers' = Observed(timers, observer', dom' # dom)
            /\ call' = [op |-> "cleanupFileLabeling", outcome |-> "done"]
    /\ UNCHANGED <<settings, vault, arg, folders>>

\* onunload(): cleanupFileLabeling(); the handlers registerEvent has registered
\* are taken from the vault as the plugin is unloaded, the timeouts and the
\* calls that are suspended stay
Unload ==
    /\ observer.loaded
    /\ observer' = [disconnect(observer) EXCEPT !.handlers = 0, !.loaded = FALSE]
    /\ dom' = cleanupLabels(dom)
    /\ fileLabels' = EmptyMap
    /\ timers' = Observed(timers, observer', dom' # dom)
    /\ call' = [op |-> "onunload", outcome |-> "done"]
    /\ UNCHANGED <<settings, vault, arg, folders, inflight>>

\* command 'refresh-file-labels'
RefreshFileLabelsCommand(files) ==
    /\ Cardinality(inflight) < MaxPending
    /\ files \in Orders(DOMAIN vault)
    /\ IF settings.showFileExplorerLabels
       THEN /\ StartRefreshAll(files, inflight, timers)
            /\ call' = [op |-> "refreshFileLabels",
                        outcome |-> IF files = << >> THEN "done" ELSE "reading"]
       ELSE \* Notice('File explorer labels are disabled in settings')
            /\ call' = [op |-> "refreshFileLabels", outcome |-> "disabled"]
            /\ UNCHANGED <<inflight, timers>>
    /\ UNCHANGED <<settings, vault, fileLabels, arg, folders, dom, observer>>

\* command 'refresh-file-explorer': refreshAllFileLabels() in 100 ms when the
\* labels are shown
RefreshFileExplorerCommand ==
    /\ timers' = IF settings.showFileExplorerLabels
                 THEN AddTimer(timers, RefreshAllTimer) ELSE timers
    /\ call' = [op |-> "refreshFileExplorer", outcome |-> "done"]
    /\ UNCHANGED <<settings, vault, fileLabels, arg, folders, inflight, dom, observer>>

\* the 100 ms callback of 'refresh-file-explorer'
RefreshAllCallback(timer, files) ==
    /\ timer \in timers
    /\ timer.kind = "refreshAll"
    /\ Cardinality(inflight) < MaxPending
    /\ files \in Orders(DOMAIN vault)
    /\ StartRefreshAll(files, inflight, RemoveTimer(timers, timer))
    /\ call' = [op |-> "refreshAllFileLabels",
                outcome |-> IF files = << >> THEN "done" ELSE "reading"]
    /\ UNCHANGED <<settings, vault, fileLabels, arg, folders, dom, observer>>

\* refreshAllFileLabels after the await of updateFileLabel(file): the cache and
\* the label of the file are written, then the next file is read, or
\* refreshVisibleFileLabels() sets its timeout after the last; a read that
\* rejects ends the call
RefreshAllContinue(pending, readFails, target) ==
    LET next == Head(pending.rest)
        nextFails == pending.rest # << >> /\ next \notin DOMAIN vault
    IN /\ pending \in inflight
       /\ pending.kind = "refreshAllFileLabels"
       /\ readFails => pending.path \notin DOMAIN vault
       /\ target \in LookupTargets(dom, pending.path)
       /\ IF readFails
          THEN /\ inflight' = inflight \ {pending}
               /\ call' = [op |-> "refreshAllFileLabels", outcome |-> "rejected"]
               /\ UNCHANGED <<fileLabels, dom, timers>>
          ELSE /\ fileLabels' = updateFileLabel(fileLabels, pending.path, pending.text, settings)
               /\ dom' = updateVisualLabel(dom, fileLabels', settings, pending.path, target)
               /\ inflight' = (inflight \ {pending})
                                \cup (IF pending.rest = << >> \/ nextFails THEN {}
                                      ELSE {PendingRefresh(next, vault[next], Tail(pending.rest))})
               /\ timers' = LET observed == Observed(timers, observer,
                                                      Mutates(dom, fileLabels', settings,
                                                              pending.path, target))
                             IN IF pending.rest = << >>
                                THEN AddTimer(observed, RefreshVisibleTimer) ELSE observed
               /\ call' = [op |-> "refreshAllFileLabels",
                           outcome |-> IF pending.rest = << >> THEN "done"
                                       ELSE IF nextFails THEN "rejected" ELSE "reading"]
       /\ UNCHANGED <<settings, vault, arg, folders, observer>>

MutationCallback_NoResync(timer) ==
    /\ timer \in timers
    /\ timer.kind = "mutation"
    /\ timers' = RemoveTimer(timers, timer)
    /\ call' = [op |-> "refreshVisibleFileLabels", outcome |-> "scheduled"]
    /\ UNCHANGED <<settings, vault, fileLabels, arg, folders, inflight, dom, observer>>

\* the MutationObserver's 100 ms callback: refreshVisibleFileLabels()
MutationCallback(timer) ==
    /\ timer \in timers
    /\ timer.kind = "mutation"
    /\ timers' = AddTimer(RemoveTimer(timers, timer), RefreshVisibleTimer)
    /\ call' = [op |-> "refreshVisibleFileLabels", outcome |-> "scheduled"]
    /\ UNCHANGED <<settings, vault, fileLabels, arg, folders, inflight, dom, observer>>

\* whether targets gives each file of order an element its lookup can end at,
\* the files being gone through in this order
RECURSIVE ValidTargets(_, _, _, _, _)
ValidTargets(tree, labels, st, order, targets) ==
    IF order = << >> THEN TRUE
    ELSE /\ targets[Head(order)] \in LookupTargets(tree, Head(order))
         /\ ValidTargets(updateVisualLabel(tree, labels, st, Head(order), targets[Head(order)]),
                         labels, st, Tail(order), targets)

\* whether a label element is removed or added while the files of order are
\* gone through
RECURSIVE AnyMutates(_, _, _, _, _)
AnyMutates(tree, labels, st, order, targets) ==
    IF order = << >> THEN FALSE
    ELSE \/ Mutates(tree, labels, st, Head(order), targets[Head(order)])
         \/ AnyMutates(updateVisualLabel(tree, labels, st, Head(order), targets[Head(order)]),
                       labels, st, Tail(order), targets)

\* updateVisualLabel(file) for the files of order, one after the other
RECURSIVE SyncAll(_, _, _, _, _)
SyncAll(tree, labels, st, order, targets) ==
    IF order = << >> THEN tree
    ELSE SyncAll(updateVisualLabel(tree, labels, st, Head(order), targets[Head(order)]),
                 labels, st, Tail(order), targets)

\* the 50 ms callback of refreshVisibleFileLabels: updateVisualLabel(file) for
\* each cache entry whose file is in the vault, in the order of the Map
RefreshVisibleCallback(timer, order, targets) ==
    /\ timer \in timers
    /\ timer.kind = "refreshVisible"
    /\ order \in Orders({path \in DOMAIN fileLabels : path \in DOMAIN vault})
    /\ ValidTargets(dom, fileLabels, settings, order, targets)
    /\ dom' = SyncAll(dom, fileLabels, settings, order, targets)
    /\ timers' = Observed(RemoveTimer(timers, timer), observer,
                          AnyMutates(dom, fileLabels, settings, order, targets))
    /\ call' = [op |-> "refreshVisibleFileLabels", outcome |-> "done"]
    /\ UNCHANGED <<settings, vault, fileLabels, arg, folders, inflight, observer>>

\* what is written into the notes while the labels are switched and refreshed
ToggleTexts == {TopicText, PlainText}

\* the notes of the vault while the labels are switched and refreshed
TogglePaths == {FilePath("Sources", "A"), FilePath("Topics", "A")}

InitToggle ==
    /\ settings = DEFAULT_SETTINGS
    /\ vault = [path \in TogglePaths |-> IF path[1] = "Sources" THEN SourceText ELSE TopicText]
    /\ fileLabels = EmptyMap
    /\ call = Idle
    /\ arg = NoArg
    /\ folders = {"Sources", "Topics"}
    /\ timers = {}
    /\ inflight = {PendingLayoutReady}
    /\ dom = EmptyMap
    /\ observer = NoObserver

NextToggle ==
    \/ \E pending \in inflight, explorerFound \in BOOLEAN, files \in Orders(DOMAIN vault) :
          LayoutReady(pending, explorerFound, files)
    \/ \E timer \in timers, explorerFound \in BOOLEAN : SetupObserverCallback(timer, explorerFound)
    \/ \E value \in BOOLEAN : SetShowFileExplorerLabels(value)
    \/ \E pending \in inflight, explorerFound \in BOOLEAN, files \in Orders(DOMAIN vault) \cup {<< >>} :
          ShowLabelsContinue(pending, explorerFound, files)
    \/ \E files \in Orders(DOMAIN vault) : RefreshFileLabelsCommand(files)
    \/ \E pending \in inflight, readFails \in BOOLEAN, target \in DOMAIN dom \cup {NoNode} :
          RefreshAllContinue(pending, readFails, target)
    \/ \E timer \in timers : MutationCallback(timer)
    \/ \E timer \in timers, targets \in [DOMAIN vault -> DOMAIN dom \cup {NoNode}] :
          \E order \in Orders({path \in DOMAIN fileLabels : path \in DOMAIN vault}) :
             RefreshVisibleCallback(timer, order, targets)
    \/ \E path \in DOMAIN vault, text \in ToggleTexts :
          Cardinality(inflight) < MaxPending /\ VaultModify(path, text)
    \/ \E pending \in inflight, readFails \in BOOLEAN, target \in DOMAIN dom \cup {NoNode} :
          UpdateFileLabelContinue(pending, readFails, target)
    \/ \E path \in DOMAIN vault : Cardinality(DOMAIN dom) < MaxRendered /\ Render(path)
    \/ \E path \in DOMAIN dom : Unrender(path)

SpecToggle == InitToggle /\ [][NextToggle]_vars

(***************************************************************************)
(* refreshAllFileLabels on a vault that is left alone                      *)
(***************************************************************************)
\* the label caches the refresh may start from: entries that the texts of the
\* notes no longer justify included
StaleCaches ==
    UNION {[paths -> {"source", "topic"}] : paths \in SUBSET TogglePaths}

InitRefresh ==
    /\ settings = DEFAULT_SETTINGS
    /\ vault \in [TogglePaths -> NoteTexts]
    /\ fileLabels \in StaleCaches
    /\ call = Idle
    /\ arg = NoArg
    /\ folders = {"Sources", "Topics"}
    /\ timers = {}
    /\ inflight = {}
    /\ dom = EmptyMap
    /\ observer = NoObserver

NextRefresh ==
    \/ \E files \in Orders(DOMAIN vault) : RefreshFileLabelsCommand(files)
    \/ RefreshFileExplorerCommand
    \/ \E timer \in timers, files \in Orders(DOMAIN vault) : RefreshAllCallback(timer, files)
    \/ \E pending \in inflight, readFails \in BOOLEAN, target \in DOMAIN dom \cup {NoNode} :
          RefreshAllContinue(pending, readFails, target)
    \/ \E timer \in timers, targets \in [DOMAIN vault -> DOMAIN dom \cup {NoNode}] :
          \E order \in Orders({path \in DOMAIN fileLabels : path \in DOMAIN vault}) :
             RefreshVisibleCallback(timer, order, targets)
    \/ \E path \in DOMAIN vault : Cardinality(DOMAIN dom) < MaxRendered /\ Render(path)
    \/ \E path \in DOMAIN dom : Unrender(path)

SpecRefresh == InitRefresh /\ [][NextRefresh]_vars

(***************************************************************************)
(* Edits of two notes of the same name, both shown in the explorer         *)
(***************************************************************************)
\* the number of file items the explorer shows at one time here
MaxShown == 2

\* the number of updateFileLabel calls suspended at one time here
MaxOverlap == 2

InitVisual ==
    /\ settings = DEFAULT_SETTINGS
    /\ vault = [path \in TogglePaths |-> PlainText]
    /\ fileLabels = EmptyMap
    /\ call = Idle
    /\ arg = NoArg
    /\ folders = {"Sources", "Topics"}
    /\ timers = {}
    /\ inflight = {}
    /\ dom = EmptyMap
    /\ observer = NoObserver

NextVisual ==
    \/ \E path \in DOMAIN vault, text \in NoteTexts :
          Cardinality(inflight) < MaxOverlap /\ VaultModify(path, text)
    \/ \E pending \in inflight, readFails \in BOOLEAN, target \in DOMAIN dom \cup {NoNode} :
          UpdateFileLabelContinue(pending, readFails, target)
    \/ \E path \in DOMAIN vault : Cardinality(DOMAIN dom) < MaxShown /\ Render(path)
    \/ \E path \in DOMAIN dom : Unrender(path)

SpecVisual == InitVisual /\ [][NextVisual]_vars

(***************************************************************************)
(* The MutationObserver on an explorer that renders and removes items      *)
(***************************************************************************)
\* the plugin after onload, the callback of onLayoutReady and the refresh it
\* starts: one observer is connected, the cache holds the types of the notes
InitObserver ==
    /\ settings = DEFAULT_SETTINGS
    /\ vault = [path \in TogglePaths |-> IF path[1] = "Sources" THEN SourceText ELSE TopicText]
    /\ fileLabels = [path \in TogglePaths |-> IF path[1] = "Sources" THEN "source" ELSE "topic"]
    /\ call = Idle
    /\ arg = NoArg
    /\ folders = {"Sources", "Topics"}
    /\ timers = {}
    /\ inflight = {}
    /\ dom = EmptyMap
    /\ observer = setupFileExplorerObserver(NoObserver, TRUE)

NextObserver ==
    \/ \E path \in DOMAIN vault : Cardinality(DOMAIN dom) < MaxShown /\ Render(path)
    \/ \E path \in DOMAIN dom : Unrender(path)
    \/ \E timer \in timers : MutationCallback(timer)
    \/ \E timer \in timers, targets \in [DOMAIN vault -> DOMAIN dom \cup {NoNode}] :
          \E order \in Orders({path \in DOMAIN fileLabels : path \in DOMAIN vault}) :
             RefreshVisibleCallback(timer, order, targets)

SpecObserver == InitObserver /\ [][NextObserver]_vars

\* a timeout that is pending runs its callback in the end
SpecObserverFair ==
    /\ SpecObserver
    /\ WF_vars(\E timer \in timers : MutationCallback(timer))
    /\ WF_vars(\E timer \in timers, targets \in [DOMAIN vault -> DOMAIN dom \cup {NoNode}] :
                  \E order \in Orders({path \in DOMAIN fileLabels : path \in DOMAIN vault}) :
                     RefreshVisibleCallback(timer, order, targets))

(***************************************************************************)
(* onunload while callbacks of a note's creation are pending               *)
(***************************************************************************)
NextUnload ==
    \/ \E title \in Titles, type \in {"topic", "argument"}, date \in Dates :
          observer.loaded /\ CreateNoteFromTemplate(title, type, "", NoMetadata, date, FALSE)
    \/ \E timer \in timers : CreateEventCallback(timer)
    \/ \E timer \in timers : AttemptLabelUpdate(timer)
    \/ \E pending \in inflight : AttemptLabelUpdateContinue(pending)
    \/ \E pending \in inflight, readFails \in BOOLEAN, target \in DOMAIN dom \cup {NoNode} :
          UpdateFileLabelContinue(pending, readFails, target)
    \/ \E path \in DOMAIN vault : Cardinality(DOMAIN dom) < MaxRendered /\ Render(path)
    \/ \E path \in DOMAIN dom : Unrender(path)
    \/ Unload

SpecUnload == InitCreate /\ [][NextUnload]_vars

(***************************************************************************)
(* Claims about identifyTypeByTags and validateTagConfiguration (SpecTags) *)
(***************************************************************************)
\* the form in which two tags are compared: one leading "#" dropped, quote
\* characters dropped, lower case
ClaimTagForm(tag) ==
    toLowerCase(RemoveChars(IF tag # << >> /\ Head(tag) = "#" THEN Tail(tag) ELSE tag,
                            {"'", "\""}))

\* some configured tag equals some tag of the note, both in ClaimTagForm
TagsMeet(configTags, noteTags) ==
    \E i \in DOMAIN configTags : \E j \in DOMAIN noteTags :
        ClaimTagForm(configTags[i]) = ClaimTagForm(noteTags[j])

\* some configured tag is, as the very same string, one of the note's tags
TagsAmong(configTags, noteTags) ==
    \E i \in DOMAIN configTags : \E j \in DOMAIN noteTags : configTags[i] = noteTags[j]

\* C1 (as amended): identifyTypeByTags returns Argument if some configured argument
\* tag matches a tag of the note, otherwise Source if some configured source tag
\* does, otherwise Topic if some configured topic tag does, otherwise none, where
\* a configured tag matches a note tag when the two are equal after dropping one
\* leading "#", dropping quote characters and lower-casing.  In particular tags
\* holding both a configured Source tag and a configured Argument tag give Argument.
C1_PriorityOrder ==
    call.op = "identifyTypeByTags" =>
        call.result =
            IF TagsMeet(settings.argumentTags, arg.noteTags) THEN "argument"
            ELSE IF TagsMeet(settings.sourceTags, arg.noteTags) THEN "source"
            ELSE IF TagsMeet(settings.topicTags, arg.noteTags) THEN "topic"
            ELSE Null

\* the tie-break case: a source tag and an argument tag both present, Argument returned
C1_Witness ==
    /\ call.op = "identifyTypeByTags"
    /\ TagsAmong(settings.argumentTags, arg.noteTags)
    /\ TagsAmong(settings.sourceTags, arg.noteTags)
    /\ call.result = "argument"

\* C1 as stated: the same priority order, with "is among the note's tags" read as
\* plain membership of the configured string in the note's tags
C1_PlainMembership ==
    call.op = "identifyTypeByTags" =>
        call.result =
            IF TagsAmong(settings.argumentTags, arg.noteTags) THEN "argument"
            ELSE IF TagsAmong(settings.sourceTags, arg.noteTags) THEN "source"
            ELSE IF TagsAmong(settings.topicTags, arg.noteTags) THEN "topic"
            ELSE Null

\* some tag, compared case-insensitively, is configured for two different note types
CrossTypeOverlap(st) ==
    LET lists == <<st.sourceTags, st.topicTags, st.argumentTags>>
    IN \E a \in 1..3 : \E b \in 1..3 :
          /\ a # b
          /\ \E i \in DOMAIN lists[a] : \E j \in DOMAIN lists[b] :
                toLowerCase(lists[a][i]) = toLowerCase(lists[b][j])

ClaimedWarnings(st) ==
    (IF st.sourceTags = << >> THEN <<WarnSourceEmpty>> ELSE << >>)
    \o (IF st.topicTags = << >> THEN <<WarnTopicEmpty>> ELSE << >>)
    \o (IF st.argumentTags = << >> THEN <<WarnArgumentEmpty>> ELSE << >>)
    \o (IF CrossTypeOverlap(st) THEN <<WarnOverlap>> ELSE << >>)

\* C10: validateTagConfiguration returns exactly one warning for each empty tag
\* list plus one overlap warning if and only if some tag (case-insensitively)
\* appears in more than one category's list; isValid is true exactly when there is
\* no warning; and classification under an overlapping configuration still
\* returns a category or none.
C10_ExactWarnings ==
    /\ call.op = "validateTagConfiguration" =>
          /\ call.result.warnings = ClaimedWarnings(settings)
          /\ call.result.isValid = (ClaimedWarnings(settings) = << >>)
    /\ (call.op = "identifyTypeByTags" /\ CrossTypeOverlap(settings)) =>
          call.result \in STANoteTypes \cup {Null}

(***************************************************************************)
(* Claims about identifyNoteType and extractTagsFromContent (SpecClassify) *)
(***************************************************************************)
\* the last command reported on a note
Reported == call.op \in {"testTagIdentification", "testMetropolisLabel"}

ReportedContent == vault[call.path]

\* at index i of s stands the bold marker, optional whitespace and the word w
BoldMarkerAt(s, i, w) ==
    /\ StartsWithAt(s, i, TypeMarker)
    /\ \E k \in (i + Len(TypeMarker))..Len(s) :
          /\ \A m \in (i + Len(TypeMarker))..(k - 1) : s[m] \in SpaceChars
          /\ StartsWithAt(s, k, TypeWordChars[w])

BoldMarkers(s) ==
    {<<i, w>> \in (1..Len(s)) \X {"Source", "Topic", "Argument"} : BoldMarkerAt(s, i, w)}

\* the category named by the leftmost bold marker of s, none without a marker
StructureOutcome(s) ==
    LET ms == BoldMarkers(s)
    IN IF ms = {} THEN Null
       ELSE LET first == CHOOSE m \in ms : \A n \in ms : m[1] <= n[1]
            IN CASE first[2] = "Source" -> "source"
                 [] first[2] = "Topic" -> "topic"
                 [] first[2] = "Argument" -> "argument"

\* C2: identifyNoteType composes the two strategies: with tag-based identification
\* on it returns the identifyTypeByTags result when that is not none and otherwise
\* the structural result; with it off it returns the structural result only, so
\* the tags do not influence the outcome.
C2_Composition ==
    call.op = "testMetropolisLabel" =>
        call.identifiedType =
            IF settings.useTagBasedIdentification /\ call.tagBasedType # Null
            THEN call.tagBasedType
            ELSE StructureOutcome(ReportedContent)

\* tag-based identification is off, the tags name a type, and the outcome is the
\* structural one, which differs
C2_Witness ==
    /\ call.op = "testMetropolisLabel"
    /\ ~settings.useTagBasedIdentification
    /\ call.tagBasedType # Null
    /\ call.identifiedType = StructureOutcome(ReportedContent)
    /\ call.identifiedType # call.tagBasedType

\* C3: for every text, every tag configuration and either strategy setting,
\* identifyNoteType returns one of the four outcomes Source, Topic, Argument, none.
C3_FourOutcomes ==
    Reported => call.identifiedType \in {"source", "topic", "argument", Null}

\* a structural match with tag-based identification off
C3_Witness ==
    /\ Reported
    /\ ~settings.useTagBasedIdentification
    /\ call.identifiedType = "topic"

\* s holds the plain marker "Type: " followed by the word w in any letter case
PlainMarkerIn(s, w) ==
    \E i \in 1..Len(s) :
        /\ StartsWithAt(s, i, <<"T","y","p","e",":"," ">>)
        /\ StartsWithAtCI(s, i + 6, TypeWordChars[w])

\* C4 as stated: with tag-based identification off, a text holding the literal
\* marker "Type: C" (C matched case-insensitively) anywhere is classified C.
C4_PlainMarker ==
    (Reported /\ ~settings.useTagBasedIdentification) =>
        /\ PlainMarkerIn(ReportedContent, "Source") => call.identifiedType = "source"
        /\ PlainMarkerIn(ReportedContent, "Topic") => call.identifiedType = "topic"
        /\ PlainMarkerIn(ReportedContent, "Argument") => call.identifiedType = "argument"

\* C4 (as amended): with tag-based identification off, the text is classified by
\* the leftmost occurrence of the bold marker "**Type:**" followed by optional
\* whitespace and one of the words Source, Topic, Argument spelled exactly so
\* (case-sensitive); a text without such an occurrence is classified none.
C4_BoldMarker ==
    (Reported /\ ~settings.useTagBasedIdentification) =>
        call.identifiedType = StructureOutcome(ReportedContent)

\* a text with a bold Topic marker, classified Topic with tag-based identification off
C4_Witness ==
    /\ Reported
    /\ ~settings.useTagBasedIdentification
    /\ \E i \in 1..Len(ReportedContent) : BoldMarkerAt(ReportedContent, i, "Topic")
    /\ call.identifiedType = "topic"

\* the lines of s
RECURSIVE Lines(_)
Lines(s) ==
    LET n == FindLit(s, <<"\n">>, 1)
    IN IF n = 0 THEN <<s>>
       ELSE <<SubSeq(s, 1, n - 1)>> \o Lines(SubSeq(s, n + 1, Len(s)))

\* line is "tags: [ ... ]" and one of its comma-separated items is a configured tag
BracketedTagLine(line, configTags) ==
    /\ StartsWithAt(line, 1, TagsKey \o <<" ", "[">>)
    /\ line[Len(line)] = "]"
    /\ LET items == SplitComma(SubSeq(line, 8, Len(line) - 1))
       IN \E i \in DOMAIN items : \E j \in DOMAIN configTags :
             ClaimTagForm(trim(items[i])) = ClaimTagForm(configTags[j])

\* s opens with a frontmatter block, closed by a "---" line, that has such a line
FrontmatterHasBracketedTag(s, configTags) ==
    /\ StartsWithAt(s, 1, Dashes \o <<"\n">>)
    /\ LET ls == Lines(s)
       IN \E close \in 2..Len(ls) :
             /\ ls[close] = Dashes
             /\ \A k \in 2..(close - 1) : ls[k] # Dashes
             /\ \E k \in 2..(close - 1) : BracketedTagLine(ls[k], configTags)

\* C5: with tag-based identification on, a text whose top-of-document frontmatter
\* has a bracketed tag list containing a configured source tag, and in which no
\* configured argument tag occurs on any tag surface, is classified Source.
C5_FrontmatterSource ==
    ( /\ Reported
      /\ settings.useTagBasedIdentification
      /\ FrontmatterHasBracketedTag(ReportedContent, settings.sourceTags)
      /\ ~TagsMeet(settings.argumentTags, call.extractedTags) )
    => call.identifiedType = "source"

\* C6: for the empty text extractTagsFromContent returns no tag and
\* identifyNoteType returns none, with tag-based identification on and off, for
\* every tag configuration.
C6_EmptyText ==
    (Reported /\ ReportedContent = << >>) =>
        /\ call.extractedTags = << >>
        /\ call.identifiedType = Null

\* the empty text reported with tag-based identification on and an empty tag list
C6_Witness ==
    /\ Reported
    /\ ReportedContent = << >>
    /\ settings.useTagBasedIdentification
    /\ settings.argumentTags = << >>
    /\ call.identifiedType = Null

\* no plugin state is written between two states
PluginStateKept ==
    /\ settings' = settings
    /\ fileLabels' = fileLabels
    /\ vault' = vault
    /\ folders' = folders
    /\ timers' = timers
    /\ inflight' = inflight
    /\ dom' = dom
    /\ observer' = observer

\* C9: extractTagsFromContent is a query: the collection it returns holds no
\* duplicates and depends on the text only, and calling it (as the command
\* testTagIdentification does) changes no plugin state.
C9_QueryNoDuplicates ==
    /\ [](Reported =>
            /\ \A i \in DOMAIN call.extractedTags : \A j \in DOMAIN call.extractedTags :
                  call.extractedTags[i] = call.extractedTags[j] => i = j
            /\ {call.extractedTags[i] : i \in DOMAIN call.extractedTags}
                  = {AllPushedTags(ReportedContent)[i] : i \in DOMAIN AllPushedTags(ReportedContent)})
    /\ [][call'.op = "testTagIdentification" => PluginStateKept]_vars

\* a text in which a tag occurs on two surfaces, reported once
C9_Witness ==
    /\ call.op = "testTagIdentification"
    /\ Len(AllPushedTags(ReportedContent)) > Len(call.extractedTags)
    /\ call.extractedTags # << >>

(***************************************************************************)
(* Claims about note creation (SpecCreate)                                 *)
(***************************************************************************)
\* the last call created a note of the given type
Created(type) ==
    /\ call.op = "createNoteFromTemplate"
    /\ call.outcome = "created"
    /\ call.type = type

\* C7: a note that createNoteFromTemplate has just created with type source is
\* identified as source when its text is read back and identified under the
\* settings it was created with
C7_SourceRoundTrip ==
    Created("source") => identifyNoteType(vault[call.path], settings) = "source"

\* C8: under the default settings a note that createNoteFromTemplate has just
\* created with type C from the default C template is identified as C, for C
\* source, topic and argument
C8_DefaultsRoundTrip ==
    \A type \in STANoteTypes :
        (Created(type) /\ settings = DEFAULT_SETTINGS)
            => identifyNoteType(vault[call.path], settings) = type

(***************************************************************************)
(* Claims about the vault's event handlers and updateFileLabel (SpecLabels)*)
(***************************************************************************)
\* the step in which the suspended updateFileLabel call u resumes and ends
UpdateEnds(u) ==
    /\ u \in inflight
    /\ u.kind = "updateFileLabel"
    /\ inflight' = inflight \ {u}
    /\ call'.op = "updateFileLabel"

\* the label cache holds for path what text is identified as: the type, or no
\* entry when there is none
CacheHolds(labels, path, text) ==
    LET noteType == identifyNoteType(text, settings)
    IN IF noteType = Null THEN path \notin DOMAIN labels
       ELSE path \in DOMAIN labels /\ labels[path] = noteType

\* C12: when updateFileLabel resumes for a note of the vault while none of the
\* three lookups of updateVisualLabel finds an element, the cache entry of the
\* note becomes what its text is identified as, the explorer is left as it was
\* and the call does not reject
C12_LookupMissAbsorbed ==
    [][\A u \in inflight :
          (UpdateEnds(u) /\ u.path \in DOMAIN vault /\ LookupTargets(dom, u.path) = {NoNode})
          => /\ CacheHolds(fileLabels', u.path, u.text)
             /\ dom' = dom
             /\ call'.outcome = "done"]_vars

\* an update has just ended for a labelled note that the explorer does not show
C12_Witness ==
    /\ call.op = "updateFileLabel"
    /\ call.outcome = "done"
    /\ call.path \in DOMAIN vault
    /\ call.path \in DOMAIN fileLabels
    /\ LookupTargets(dom, call.path) = {NoNode}

\* C13: a 'rename' of a note that has a cache entry leaves no entry for the old
\* path, gives the new path the type the old path had, and leaves every other
\* entry as it was; a 'rename' of a note without an entry leaves the cache as
\* it was
C13_RenameMigratesKey ==
    [][call'.op = "rename" =>
         LET oldPath == call'.oldPath
             newPath == call'.path
         IN IF oldPath \in DOMAIN fileLabels
            THEN /\ oldPath \notin DOMAIN fileLabels'
                 /\ newPath \in DOMAIN fileLabels'
                 /\ fileLabels'[newPath] = fileLabels[oldPath]
                 /\ \A other \in LabelPaths \ {oldPath, newPath} :
                       /\ other \in DOMAIN fileLabels' <=> other \in DOMAIN fileLabels
                       /\ other \in DOMAIN fileLabels => fileLabels'[other] = fileLabels[other]
            ELSE fileLabels' = fileLabels]_vars

\* a labelled note has just been renamed while another note has a label too
C13_Witness ==
    /\ call.op = "rename"
    /\ call.path \in DOMAIN fileLabels
    /\ call.oldPath \notin DOMAIN fileLabels
    /\ \E other \in DOMAIN fileLabels : other # call.path

\* C14: once the 'delete' handler has run for a note the cache has no entry for
\* it, and from then on no step gives the deleted note an entry again; a
\* callback that was pending for it ends without changing the explorer and
\* without rejecting
C14_DeleteIsFinal ==
    [][/\ call'.op = "delete" => call'.path \notin DOMAIN fileLabels'
       /\ \A path \in LabelPaths :
             (path \notin DOMAIN vault /\ path \notin DOMAIN vault' /\ path \notin DOMAIN fileLabels)
             => /\ path \notin DOMAIN fileLabels'
                /\ (call'.op = "updateFileLabel" /\ call'.path = path)
                   => (dom' = dom /\ call'.outcome # "rejected")]_vars

\* the cache holds an entry for a note that is not in the vault
StaleEntry == \E path \in DOMAIN fileLabels : path \notin DOMAIN vault

\* C15: when updateFileLabel resumes for a note whose text is still the text it
\* read, the cache entry of the note becomes what that text is identified as
\* (set when it is a type, removed when it is none), every other entry stays as
\* it was, and an element whose labels the call changes gets the label of the
\* entry just written: the new type last when there is an entry, one label
\* fewer when there is none
C15_UpdateFileLabel ==
    [][\A u \in inflight :
          (UpdateEnds(u) /\ u.path \in DOMAIN vault /\ vault[u.path] = u.text
             /\ call'.outcome = "done")
          => /\ CacheHolds(fileLabels', u.path, vault[u.path])
             /\ \A other \in LabelPaths \ {u.path} :
                   /\ other \in DOMAIN fileLabels' <=> other \in DOMAIN fileLabels
                   /\ other \in DOMAIN fileLabels => fileLabels'[other] = fileLabels[other]
             /\ DOMAIN dom' = DOMAIN dom
             /\ \A node \in DOMAIN dom :
                   dom'[node] # dom[node]
                   => IF u.path \in DOMAIN fileLabels'
                      THEN /\ dom'[node] # << >>
                           /\ dom'[node][Len(dom'[node])] = fileLabels'[u.path]
                      ELSE Len(dom'[node]) < Len(dom[node])]_vars

\* an update has just ended for a note of the vault, and the element of the note
\* shows the type the cache now holds for it
C15_Witness ==
    /\ call.op = "updateFileLabel"
    /\ call.outcome = "done"
    /\ call.path \in DOMAIN vault
    /\ call.path \in DOMAIN fileLabels
    /\ call.path \in DOMAIN dom
    /\ dom[call.path] = <<fileLabels[call.path]>>
    /\ fileLabels[call.path] = identifyNoteType(vault[call.path], settings)

(***************************************************************************)
(* Claims about createNoteFromTemplate's callbacks (SpecCreateFair)        *)
(***************************************************************************)
\* the pending callbacks of attemptLabelUpdate
RetryTimers == {timer \in timers : timer.kind = "retry"}

\* the delay the k-th attempt is scheduled with, 500 * 2^(k-1) ms
ClaimedRetryDelays == <<500, 1000, 2000, 4000, 8000>>

\* the step in which the callback of the pending attempt timer runs
AttemptRuns(timer) ==
    /\ timer \in timers
    /\ timer \notin timers'
    /\ call'.op = "attemptLabelUpdate"
    /\ call'.path = timer.path
    /\ call'.attempt = timer.attempt

\* C17: the attempts of attemptLabelUpdate are numbered 1 to 5 and the k-th is
\* scheduled with delay 500 * 2^(k-1) ms; an attempt that finds the element of
\* the note starts one label update and schedules nothing; one that does not
\* schedules the next attempt with twice the delay, the fifth nothing, and ends
\* without an error; and a pending attempt leads to no attempt being pending
C17_RetryChain ==
    /\ [](\A timer \in RetryTimers :
             /\ timer.attempt \in 1..5
             /\ timer.delay = ClaimedRetryDelays[timer.attempt])
    /\ [][\A timer \in RetryTimers :
             AttemptRuns(timer)
             => IF timer.path \in DOMAIN dom
                THEN /\ timers' = timers \ {timer}
                     /\ inflight' = inflight \cup {PendingIdentify(timer.path)}
                ELSE /\ timers' \ timers =
                           IF timer.attempt < 5
                           THEN {[timer EXCEPT !.attempt = @ + 1, !.delay = 2 * @]}
                           ELSE {}
                     /\ timers \ timers' = {timer}
                     /\ inflight' = inflight
                     /\ call'.outcome = "done"]_vars
    /\ (RetryTimers # {}) ~> (RetryTimers = {})

\* the fifth attempt has just run without finding the element, and no attempt
\* is pending
C17_Witness ==
    /\ call.op = "attemptLabelUpdate"
    /\ call.attempt = 5
    /\ ~call.found
    /\ RetryTimers = {}

(***************************************************************************)
(* Claims about createNoteFromTemplate's failures (SpecCreate)             *)
(***************************************************************************)
\* C19: a call of createNoteFromTemplate that creates no note, because the
\* folder or the file could not be created, ends in the catch block with the
\* notice 'Error creating note: ...', adds no cache entry and schedules no
\* attempt
C19_FailuresCaught ==
    [][(call'.op = "createNoteFromTemplate" /\ call'.outcome # "created")
       => /\ call'.outcome = "error"
          /\ fileLabels' = fileLabels
          /\ timers' = timers]_vars

(***************************************************************************)
(* Claims about STANoteCreationModal.createNote (SpecModal)                *)
(***************************************************************************)
\* C20: whatever the fetches of the citation end in, createNote with a title
\* goes on to call createNoteFromTemplate: no run of createNote ends with the
\* error of a fetch leaving it
C20_CitationNeverAborts == ~(call.op = "createNote" /\ call.outcome = "rejected")

(***************************************************************************)
(* Claims about the labels in the explorer (SpecToggle)                    *)
(***************************************************************************)
\* C11: whatever updateFileLabel, updateVisualLabel, refreshAllFileLabels and
\* the re-syncs the MutationObserver starts have done, every element of the
\* explorer carries at most one label
C11_AtMostOneLabel == \A node \in DOMAIN dom : Len(dom[node]) <= 1

\* a re-sync started by the MutationObserver has just gone through the cache,
\* replacing labels, and an element carries its one label
C11_Witness ==
    /\ call.op = "refreshVisibleFileLabels"
    /\ call.outcome = "done"
    /\ observer.active > 0
    /\ Pending(MutationTimer)
    /\ \E node \in DOMAIN dom : Len(dom[node]) = 1

\* the toggle has been switched off and its cleanupFileLabeling is still to run
CleanupPending == \E pending \in inflight : pending.kind = "toggle" /\ ~pending.value

\* the steps that end in updateVisualLabel
SyncOps == {"updateFileLabel", "refreshAllFileLabels", "refreshVisibleFileLabels"}

\* C18: while showFileExplorerLabels is off, a step that calls updateVisualLabel
\* leaves the explorer as it was; cleanupFileLabeling leaves no label in the
\* explorer; and whenever the setting is off and no cleanupFileLabeling is
\* still to run, no element of the explorer carries a label
C18_LabelsOff ==
    /\ []((~settings.showFileExplorerLabels /\ ~CleanupPending)
          => \A node \in DOMAIN dom : dom[node] = << >>)
    /\ [][/\ (~settings.showFileExplorerLabels /\ call'.op \in SyncOps) => dom' = dom
          /\ call'.op = "cleanupFileLabeling" => \A node \in DOMAIN dom' : dom'[node] = << >>]_vars

\* with the setting off and cleanupFileLabeling done, updateFileLabel has just
\* run for a note the explorer shows and has given it a cache entry
C18_Witness ==
    /\ ~settings.showFileExplorerLabels
    /\ ~CleanupPending
    /\ call.op = "updateFileLabel"
    /\ call.outcome = "done"
    /\ call.path \in DOMAIN dom
    /\ call.path \in DOMAIN fileLabels

(***************************************************************************)
(* Claims about refreshAllFileLabels (SpecRefresh)                         *)
(***************************************************************************)
\* the step in which the suspended refreshAllFileLabels call u resumes
RefreshResumes(u) ==
    /\ u \in inflight
    /\ u.kind = "refreshAllFileLabels"
    /\ u \notin inflight'
    /\ call'.op = "refreshAllFileLabels"

\* C16: when refreshAllFileLabels has ended on a vault that no event has
\* touched in the meantime, the cache holds for every note of the vault what
\* its text is identified as (no entry when it is none) and the timeout of
\* refreshVisibleFileLabels is set; and each time the call resumes, for one
\* file, updateVisualLabel is applied for that file with the cache just written
C16_RefreshRebuildsCache ==
    /\ []((call.op = "refreshAllFileLabels" /\ call.outcome = "done")
          => /\ \A path \in DOMAIN vault : CacheHolds(fileLabels, path, vault[path])
             /\ Pending(RefreshVisibleTimer))
    /\ [][\A u \in inflight :
             RefreshResumes(u)
             => \E target \in LookupTargets(dom, u.path) :
                   dom' = updateVisualLabel(dom, fileLabels', settings, u.path, target)]_vars

\* refreshAllFileLabels has just ended: one note has an entry, the other has
\* none, and the explorer shows the label of the first
C16_Witness ==
    /\ call.op = "refreshAllFileLabels"
    /\ call.outcome = "done"
    /\ \E path \in DOMAIN vault :
          /\ path \in DOMAIN fileLabels
          /\ path \in DOMAIN dom
          /\ dom[path] = <<fileLabels[path]>>
    /\ \E path \in DOMAIN vault : path \notin DOMAIN fileLabels

(***************************************************************************)
(* Claims about the MutationObservers and the vault's handlers (SpecToggle)*)
(***************************************************************************)
\* C29: whatever onload, the toggle, the callbacks of onLayoutReady and the
\* 1000 ms retries of setupFileExplorerObserver have done, at most one
\* MutationObserver is connected; and none is while the labels are switched
\* off and cleanupFileLabeling has run
C29_OneSubscription ==
    /\ observer.active <= 1
    /\ (~settings.showFileExplorerLabels /\ ~CleanupPending) => observer.active = 0


\* an update of the cache the handler of a note event has started ends
NoteEventUpdateEnds == call'.op = "updateFileLabel" /\ call'.outcome = "done"

\* C30: while the labels are switched off and cleanupFileLabeling has cleared
\* the cache, the updates that note events start leave the cache empty; and
\* a note event starts one updateFileLabel, however often the labels have been
\* switched off and on
C30_OffStopsMaintenance ==
    [][/\ (~settings.showFileExplorerLabels /\ ~CleanupPending /\ NoteEventUpdateEnds)
          => fileLabels' = EmptyMap
       /\ call'.op = "modify" => call'.calls = 1]_vars


(***************************************************************************)
(* Claims about what the plugin writes into the explorer (SpecToggle)      *)
(***************************************************************************)
\* the steps of the explorer itself
ExplorerOps == {"render", "unrender"}

\* C24: a step of the plugin (updateFileLabel, refreshAllFileLabels, the
\* re-sync of refreshVisibleFileLabels, cleanupFileLabeling and the others)
\* leaves every element of the explorer in place and adds none: all it changes
\* of an element are the labels it carries; what it has taken away of them are
\* the first ones, what it has added stands behind the ones left, so no
\* element is reordered
C24_OnlyOwnLabels ==
    [][call'.op \notin ExplorerOps
       => /\ DOMAIN dom' = DOMAIN dom
          /\ \A node \in DOMAIN dom :
                \E k \in 0..Len(dom[node]) :
                   /\ Len(dom'[node]) >= Len(dom[node]) - k
                   /\ \A i \in 1..(Len(dom[node]) - k) : dom'[node][i] = dom[node][k + i]
                   /\ \A i \in 1..Len(dom'[node]) : dom'[node][i] \in STANoteTypes]_vars

\* refreshAllFileLabels has gone through a file whose element the explorer
\* shows: the element is in place and carries the label of the file
C24_Witness ==
    /\ call.op = "refreshAllFileLabels"
    /\ call.outcome = "reading"
    /\ \E node \in DOMAIN dom :
          /\ node \in DOMAIN fileLabels
          /\ dom[node] = <<fileLabels[node]>>


(***************************************************************************)
(* Claims about updateVisualLabel with two elements shown (SpecVisual)     *)
(***************************************************************************)
\* the labels the element of path carries when it shows what the cache labels
\* holds for path
LabelsFor(labels, path) == IF path \in DOMAIN labels THEN <<labels[path]>> ELSE << >>

\* C21: when updateFileLabel resumes for a note while the labels are shown and
\* the explorer shows the element of the note, which one of the lookups of
\* updateVisualLabel can find, the element then carries the label of the type
\* the cache holds for the note, and no label when the cache holds none,
\* whatever label it carried before
C21_SyncShowsCachedType ==
    [][\A u \in inflight :
          (/\ UpdateEnds(u)
           /\ call'.outcome = "done"
           /\ settings.showFileExplorerLabels
           /\ u.path \in DOMAIN dom)
          => dom'[u.path] = LabelsFor(fileLabels', u.path)]_vars

\* C27: when updateFileLabel resumes for a note whose element the explorer
\* shows, the elements of the other notes carry the labels they carried
\* before, notes of the same name in another folder included
C27_SyncTouchesOwnElement ==
    [][\A u \in inflight :
          (UpdateEnds(u) /\ u.path \in DOMAIN dom)
          => \A node \in DOMAIN dom \ {u.path} : dom'[node] = dom[node]]_vars

\* C25: no step orders or cancels the updateFileLabel calls that overlap: a
\* 'modify' event leaves the suspended calls suspended, and a call that resumes
\* writes into the cache what the text it has read is identified as, whatever
\* the vault holds by then; so the two calls of two edits of a note can end
\* with the cache and the label of the older text (C25_Witness)
C25_UpdatesRace ==
    [][/\ call'.op = "modify" => inflight \subseteq inflight'
       /\ \A u \in inflight :
             (UpdateEnds(u) /\ call'.outcome = "done")
             => CacheHolds(fileLabels', u.path, u.text)]_vars

\* every call has ended; the note whose update ended last is a topic note by
\* its text, while the cache and the label of its element say source
C25_Witness ==
    /\ inflight = {}
    /\ timers = {}
    /\ call.op = "updateFileLabel"
    /\ call.outcome = "done"
    /\ call.path \in DOMAIN dom
    /\ vault[call.path] = TopicText
    /\ call.path \in DOMAIN fileLabels
    /\ fileLabels[call.path] = "source"
    /\ dom[call.path] = <<"source">>


(***************************************************************************)
(* Claims about the MutationObserver's re-sync (SpecObserverFair)          *)
(***************************************************************************)
\* the explorer has just rendered or removed an item
Notified == call.op \in ExplorerOps

\* the 50 ms callback of refreshVisibleFileLabels has just gone through the cache
PassDone == call.op = "refreshVisibleFileLabels" /\ call.outcome = "done"

\* the notes the re-sync goes through: the cache entries whose file is in the vault
CachedNotes == {path \in DOMAIN fileLabels : path \in DOMAIN vault}

\* C22: a change of the explorer's items while the observer is connected sets
\* the observer's timeout, and is followed in the end by the pass of
\* refreshVisibleFileLabels; the pass applies updateVisualLabel for every cache
\* entry whose note is in the vault, and leaves the cache as it is
C22_NotificationResyncs ==
    /\ []((Notified /\ observer.active > 0) => Pending(MutationTimer))
    /\ (Notified /\ observer.active > 0) ~> PassDone
    /\ [][(call'.op = "refreshVisibleFileLabels" /\ call'.outcome = "done")
          => /\ fileLabels' = fileLabels
             /\ \E order \in Orders(CachedNotes) :
                   \E targets \in [CachedNotes -> DOMAIN dom \cup {NoNode}] :
                      /\ \A i \in 1..Len(order) :
                            targets[order[i]] = NoNode => order[i] \notin DOMAIN dom
                      /\ dom' = SyncAll(dom, fileLabels, settings, order, targets)]_vars

\* a pass has gone through the cache after the explorer rendered the items of
\* both notes: each carries the label of its note
C22_Witness ==
    /\ PassDone
    /\ DOMAIN dom = DOMAIN fileLabels
    /\ \A node \in DOMAIN dom : dom[node] = <<fileLabels[node]>>
    /\ Cardinality(DOMAIN dom) = 2

\* C23: the re-sync is debounced: a change of the explorer's items that the
\* observer is told of while the timeout of an earlier one is pending sets no
\* further timeout, so that one pass follows the burst
C23_Debounced ==
    [][(call'.op \in ExplorerOps /\ Pending(MutationTimer)) => timers' = timers]_vars

\* C26: once the explorer renders and removes no more items, the timeouts of
\* the observer and of refreshVisibleFileLabels run out: from some time on none
\* is pending
C26_Quiescence == <>[](~Notified) => <>[](timers = {})


(***************************************************************************)
(* Claims about onunload (SpecUnload)                                      *)
(***************************************************************************)
\* C28: once onunload has run and every timeout and every suspended call has
\* come to its end, no element of the explorer carries a label and the cache is
\* empty
C28_UnloadIsFinal ==
    (~observer.loaded /\ timers = {} /\ inflight = {})
    => /\ fileLabels = EmptyMap
       /\ \A node \in DOMAIN dom : dom[node] = << >>

====
